---- MODULE Spec2Model ----
(***************************************************************************)
(* PyRunner_MCP: a persistent Python kernel (src/kernel_server.py) and the *)
(* supervisor that starts it (src/PyRunner_MCP.py).                        *)
(*                                                                         *)
(* Spec     the kernel process: the accept loop of start_kernel_server,    *)
(*          handle_client on each accepted connection, and the engine      *)
(*          (execute_code, handle_inspect, handle_reset, handle_status)    *)
(*          acting on global_namespace.                                    *)
(* SpecSup  supervisors running _start_kernel against the endpoint, and    *)
(*          the kernel processes they spawn binding it.                    *)
(* SpecUptime, SpecDispatch, SpecInspect                                   *)
(*          the kernel under one kind of request: status with the clock,   *)
(*          documents without a known action, inspect over namespaces.     *)
(* SpecRestart, SpecShutdown                                               *)
(*          one supervisor stopping and restarting the kernel; one MCP     *)
(*          server process from its start-up to its end.                   *)
(* SpecRpc, SpecRpcFair, SpecOnce                                          *)
(*          one caller in _execute_in_kernel and _send_kernel_command; in  *)
(*          SpecRpcFair its thread and clock go on; in SpecOnce the        *)
(*          kernel's side of the exchange is followed too.                 *)
(* SpecFraming                                                             *)
(*          the bytes of one request, from sendall to json.loads.          *)
(*                                                                         *)
(* Submitted code is a straight-line program over a small statement        *)
(* alphabet: bind a name, read (print) a name, raise an Exception, raise   *)
(* SystemExit.  Names are sequences of characters so that startswith,      *)
(* lower and the substring test are computed as the code computes them.    *)
(***************************************************************************)
EXTENDS Integers, Sequences, FiniteSets, TLC

\* ------------------------------------------------------------ bounds ----
MaxConns == 2
MaxStmts == 2

MaxProcs == 2
\* the kernel clock is read in whole ticks up to MaxTime
MaxTime == 2

\* server.listen(5)
LISTEN_BACKLOG == 5
\* for i in range(50)
PollAttempts == 50
\* KERNEL_PROCESS = None
NoProcess == 0
\* _restart_kernel: `for attempt in range(3)`
RestartAttempts == 3
\* _execute_in_kernel: `for attempt in range(3)` around _start_kernel
EnsureAttempts == 3
\* _send_kernel_command: max_retries = 3
max_retries == 3
\* the total deadline of _execute_in_kernel, in recv timeouts
TimeoutTicks == 2

Conns == 1..MaxConns
Procs == 1..MaxProcs
Sups == {"s1", "s2"}

\* --------------------------------------------------- names and values ---
DunderName == <<"_", "_", "n", "a", "m", "e", "_", "_">>
ProgIdents == {<<"x">>}
Values == {"v1", "v2"}

\* str.startswith
startswith(name, prefix) ==
    /\ Len(name) >= Len(prefix)
    /\ SubSeq(name, 1, Len(prefix)) = prefix

LowerChar(ch) ==
    CASE ch = "X" -> "x"
      [] ch = "Y" -> "y"
      [] OTHER -> ch

\* a comparison that keeps the case of both sides
lower_keeps_case(s) == s

\* str.lower
lower(s) == [i \in 1..Len(s) |-> LowerChar(s[i])]

\* the substring test `sub in s`
contains(sub, s) ==
    \E i \in 0..(Len(s) - Len(sub)) : SubSeq(s, i + 1, i + Len(sub)) = sub

\* ------------------------------------------------------- submitted code -
NoName == <<>>
BindStmt(name, val) == [op |-> "bind", name |-> name, val |-> val]
ReadStmt(name) == [op |-> "read", name |-> name, val |-> "-"]
RaiseStmt == [op |-> "raise", name |-> NoName, val |-> "-"]
ExitStmt == [op |-> "exit", name |-> NoName, val |-> "-"]

Stmts ==
    {BindStmt(n, v) : n \in ProgIdents, v \in Values}
        \cup {ReadStmt(n) : n \in ProgIdents}
        \cup {RaiseStmt, ExitStmt}

Codes == UNION {[1..n -> Stmts] : n \in 0..MaxStmts}

\* ------------------------------------------------- request documents ----
Patterns == {<<>>, <<"x">>, <<"X">>, <<"q">>}

\* what _execute_in_kernel and _send_kernel_command put on the wire
Docs ==
    {[code |-> p] : p \in Codes}
        \cup {[action |-> "inspect", pattern |-> pat] : pat \in Patterns}
        \cup {[action |-> "inspect"], [action |-> "reset"], [action |-> "status"]}

\* what a peer may have sent when the receive loop ends: nothing, bytes that
\* are not JSON, JSON that is not an object, or a request document
Payloads ==
    {[kind |-> "empty"], [kind |-> "garbage"], [kind |-> "nondict"]}
        \cup {[kind |-> "doc", doc |-> d] : d \in Docs}

NoRequest == [none |-> TRUE]
NoResult == [none |-> TRUE]

\* dict.get
Get(d, key, default) == IF key \in DOMAIN d THEN d[key] ELSE default

\* ------------------------------------------------------------- state ----
VARIABLES
    kernel,            \* the kernel process: "listening" | "exited"
    global_namespace,  \* kernel_server.global_namespace
    sys_stdout,        \* the installed sys.stdout: "original" | "capture"
    backlog,           \* connections waiting in the listen queue, in order
    st,                \* per connection: its place in handle_client
    data,              \* per connection: kind of the bytes received
    request,           \* per connection: the decoded request
    ip,                \* per connection: next statement of the code in exec
    capture_stdout,    \* per connection: what the code printed so far
    original_stdout,   \* per connection: execute_code's saved sys.stdout
    result,            \* per connection: the result to send
    sendalls,          \* per connection: conn.sendall calls made
    wire,              \* per connection: "nothing" | "gone" (the peer
                       \*   closed its socket) | "response" (it got one)
    bound,             \* history: last value bound to a name since the
                       \*   last reset ("unbound": none)
    cleared,           \* history: names bound before the last reset only
    faulted,           \* history: names whose binding was made by code
                       \*   that faulted later
    offered,           \* what the clients of this kernel send: "any"
                       \*   payload | "each" (one request of each kind) |
                       \*   "default" (requests of other peers) |
                       \*   "inspect" (inspect requests)
    now,               \* time.time() in the kernel process, in ticks since
                       \*   the process started
    KERNEL_START_TIME, \* kernel_server.KERNEL_START_TIME
    reported,          \* history: the uptime the last status reported
                       \*   (0 before the first status)
    script_exists,     \* per supervisor: kernel_script.exists()
    platform,          \* sys.platform: "posix" | "win32"
    proc,              \* per kernel process: "unborn" | "starting" |
                       \*   "listening" | "exited"
    KERNEL_PROCESS,    \* per supervisor: the owned handle, or NoProcess
    spc,               \* per supervisor: its place in _start_kernel
    poll_i,            \* per supervisor: i of the polling loop
    ret,               \* per supervisor: what _start_kernel returned
    psutil_importable, \* `import psutil` succeeds in the supervisors
    kpc,               \* per supervisor: its place in _stop_kernel
    rpc,               \* per supervisor: its place in _restart_kernel
    attempt,           \* per supervisor: attempt of _restart_kernel's loop
    rret,              \* per supervisor: what _restart_kernel returned
    stops,             \* history: _stop_kernel calls of this restart
    starts,            \* history: _start_kernel calls of this restart
    oks,               \* history: how many of those returned True
    served_before,     \* history: the processes that listened on the
                       \*   endpoint when _restart_kernel was called
    owned_at_stop,     \* history: KERNEL_PROCESS when _stop_kernel was called
    mpc,               \* per supervisor: the life of its process: "running" |
                       \*   "handler" | "exiting" | "atexit" | "ended"
    hook_stops,        \* history: _stop_kernel calls made by the signal
                       \*   handler and by atexit on the way to the
                       \*   process's end
    term,              \* history: how the process came to end:
                       \*   "none" | "exit" | "signal"
    cfn,               \* per supervisor: the RPC function it is in:
                       \*   "none" | "execute" | "command"
    cpc,               \* per supervisor: its place in that function
    retry,             \* per supervisor: _retry of _execute_in_kernel
    cattempt,          \* per supervisor: attempt of the loop it is in
    response,          \* per supervisor: the bytes received so far:
                       \*   "empty" | "partial" | "complete"
    elapsed,           \* per supervisor: time.time() - start_time, in ticks
    outcome,           \* per supervisor: what the RPC function returned
    exchanges,         \* history: exchanges begun by this call
    empties,           \* history: exchanges of this call that ended with
                       \*   the connection closed and no byte received
    expired,           \* history: the total deadline check of this
                       \*   exchange found the deadline passed
    cut,               \* history: the current exchange was cut by a
                       \*   connection reset
    start_fails,       \* history: _start_kernel calls of this RPC call
                       \*   that returned False
    start_calls,       \* history: _start_kernel calls of this RPC call
                       \*   that have returned
    refusals,          \* history: connects of this RPC call that were
                       \*   refused
    ensured,           \* history: _is_kernel_running or _start_kernel has
                       \*   run since the call (or its recursive call) began
    kside,             \* per supervisor: the kernel's side of the current
                       \*   exchange: "abstract" (not followed) | "none" |
                       \*   "queued" | "executing" | "responded" | "exited"
    executions,        \* history: how many times a kernel began executing
                       \*   the code of this _execute_in_kernel call
    fdoc,              \* framing: the request document the sender encoded
    pending,           \* framing: bytes sent and not yet received
    fdata,             \* framing: handle_client's data
    fst,               \* framing: "idle" | "reading" | "stopped"
    frequest           \* framing: what json.loads(data) gave after the loop

fvars == <<fdoc, pending, fdata, fst, frequest>>

kvars ==
    <<kernel, global_namespace, sys_stdout, backlog, st, data, request, ip,
      capture_stdout, original_stdout, result, sendalls, wire, bound, cleared,
      faulted, now, KERNEL_START_TIME, offered, reported, fvars>>

tvars == <<now, KERNEL_START_TIME, offered, reported, fvars>>

hvars == <<mpc, hook_stops, term>>

rvars ==
    <<psutil_importable, kpc, rpc, attempt, rret, stops, starts, oks,
      served_before, owned_at_stop, hvars>>

gvars ==
    <<cut, start_fails, start_calls, refusals, ensured, kside,
      executions>>

cvars ==
    <<cfn, cpc, retry, cattempt, response, elapsed, outcome, exchanges,
      empties, expired, gvars>>

svars ==
    <<script_exists, platform, proc, KERNEL_PROCESS, spc, poll_i, ret, rvars,
      cvars>>

vars == <<kvars, svars>>

Handling == {"recv", "dispatch", "exec", "respond"}

hist == <<bound, cleared, faulted>>

\* ------------------------------------------------------------ engine ----
\* global_namespace = {"__name__": "__main__"}
FreshNamespace == (DunderName :> "__main__")

\* a value whose __repr__ raises
Unprintable == "unprintable"

\* repr(value)
repr(value) ==
    IF value = Unprintable
    THEN [raised |-> "Exception", text |-> "-"]
    ELSE [raised |-> "none", text |-> value]

\* preview = "<無法預覽>"
Placeholder == "<no preview>"

\* a preview with no handler around repr
except_nothing(raised) == FALSE

\* the bare `except:` around the preview catches whatever repr raises
except_bare(raised) == TRUE

\* handle_inspect: `try: preview = repr(value)[:50] ... except: preview =`
\* the placeholder
preview(value) ==
    IF repr(value).raised = "none" THEN repr(value).text ELSE Placeholder

\* handle_inspect that consumes the entries it lists
handle_inspect_popping(ns, pattern) ==
    LET shown ==
            {name \in DOMAIN ns :
                /\ ~startswith(name, <<"_">>)
                /\ (pattern = <<>> \/ contains(lower(pattern), lower(name)))}
        vars_info == {[name |-> n, preview |-> preview(ns[n])] : n \in shown}
    IN  [result |-> [success |-> TRUE, action |-> "inspect",
                     count |-> Cardinality(vars_info),
                     variables |-> vars_info],
         ns |-> [n \in DOMAIN ns \ shown |-> ns[n]]]

\* handle_inspect: the entries shown, and the namespace it leaves; an
\* error that leaves the preview's `try` leaves handle_inspect and is
\* answered by handle_client's `except Exception`
handle_inspect(ns, pattern) ==
    LET shown ==
            {name \in DOMAIN ns :
                /\ ~startswith(name, <<"_">>)
                /\ (pattern = <<>> \/ contains(lower(pattern), lower(name)))}
        uncaught ==
            {n \in shown :
                /\ repr(ns[n]).raised # "none"
                /\ ~except_bare(repr(ns[n]).raised)}
        vars_info == {[name |-> n, preview |-> preview(ns[n])] : n \in shown}
    IN  IF uncaught = {}
        THEN [result |-> [success |-> TRUE, action |-> "inspect",
                          count |-> Cardinality(vars_info),
                          variables |-> vars_info],
              ns |-> ns]
        ELSE [result |-> [success |-> FALSE, stdout |-> <<>>, stderr |-> <<>>,
                          error |-> <<"Kernel error", "Exception">>],
              ns |-> ns]

\* handle_reset without `global global_namespace`: only a local is rebound
handle_reset_local(ns) ==
    [result |-> [success |-> TRUE, action |-> "reset", message |-> "cleared"],
     ns |-> ns]

\* handle_reset: the result, and the namespace it leaves
handle_reset(ns) ==
    [result |-> [success |-> TRUE, action |-> "reset", message |-> "cleared"],
     ns |-> FreshNamespace]

\* a status that reports the seconds part of uptime_human, int(uptime % 60),
\* with a minute of MaxTime ticks
uptime_seconds_part(t, start) == (t - start) % MaxTime

\* uptime = time.time() - KERNEL_START_TIME
uptime(t, start) == t - start

\* handle_status: the result, and the namespace it leaves
handle_status(ns) ==
    [result |-> [success |-> TRUE, action |-> "status",
                 uptime_seconds |-> uptime(now, KERNEL_START_TIME),
                 variable_count |->
                     Cardinality({k \in DOMAIN ns : ~startswith(k, <<"_">>)})],
     ns |-> ns]

\* exec against a copy of the namespace: a binding ends with the statement
exec_statement_on_copy(ns, s) ==
    CASE s.op = "bind" ->
            [ns |-> ns, printed |-> <<>>, raised |-> "none"]
      [] s.op = "read" ->
            IF s.name \in DOMAIN ns
            THEN [ns |-> ns, printed |-> <<ns[s.name]>>, raised |-> "none"]
            ELSE [ns |-> ns, printed |-> <<>>, raised |-> "NameError"]
      [] s.op = "raise" ->
            [ns |-> ns, printed |-> <<>>, raised |-> "Exception"]
      [] OTHER ->
            [ns |-> ns, printed |-> <<>>, raised |-> "SystemExit"]

\* exec that undoes the code's bindings when a statement raises
exec_statement_rollback(ns, s) ==
    CASE s.op = "bind" ->
            [ns |-> [n \in DOMAIN ns \cup {s.name} |->
                        IF n = s.name THEN s.val ELSE ns[n]],
             printed |-> <<>>, raised |-> "none"]
      [] s.op = "read" ->
            IF s.name \in DOMAIN ns
            THEN [ns |-> ns, printed |-> <<ns[s.name]>>, raised |-> "none"]
            ELSE [ns |-> (DunderName :> "__main__"), printed |-> <<>>,
                  raised |-> "NameError"]
      [] s.op = "raise" ->
            [ns |-> (DunderName :> "__main__"), printed |-> <<>>,
             raised |-> "Exception"]
      [] OTHER ->
            [ns |-> ns, printed |-> <<>>, raised |-> "SystemExit"]

\* exec of one statement of the code against the namespace
exec_statement(ns, s) ==
    CASE s.op = "bind" ->
            [ns |-> [n \in DOMAIN ns \cup {s.name} |->
                        IF n = s.name THEN s.val ELSE ns[n]],
             printed |-> <<>>, raised |-> "none"]
      [] s.op = "read" ->
            IF s.name \in DOMAIN ns
            THEN [ns |-> ns, printed |-> <<ns[s.name]>>, raised |-> "none"]
            ELSE [ns |-> ns, printed |-> <<>>, raised |-> "NameError"]
      [] s.op = "raise" ->
            [ns |-> ns, printed |-> <<>>, raised |-> "Exception"]
      [] OTHER ->
            [ns |-> ns, printed |-> <<>>, raised |-> "SystemExit"]

\* `except ValueError`: only the JSON decoding error is caught
except_ValueError(raised) == raised \in {"JSONDecodeError"}

\* `except Exception`: SystemExit derives from BaseException only
except_Exception(raised) ==
    raised \in {"NameError", "Exception", "JSONDecodeError", "AttributeError"}

\* execute_code with the restore after the try statement, not in `finally`
restore_on_return_only(original, raised) ==
    IF except_Exception(raised) \/ raised = "none" THEN original ELSE "capture"

\* execute_code: `finally: sys.stdout = original_stdout`, whatever was raised
finally_restore(original, raised) == original

\* handle_client without the early return on empty data
no_data_never(payload) == FALSE

\* `if not data: return`
no_data(payload) == payload.kind = "empty"

\* a decoder that takes bytes it cannot parse for a reset request
decode_garbage_as_reset(payload) ==
    CASE payload.kind = "empty" ->
            [raised |-> "JSONDecodeError", request |-> NoRequest]
      [] payload.kind \in {"garbage", "nondict"} ->
            [raised |-> "none", request |-> [action |-> "reset"]]
      [] OTHER ->
            [raised |-> "none", request |-> payload.doc]

\* json.loads(data.decode("utf-8")) followed by request.get
decode(payload) ==
    CASE payload.kind \in {"empty", "garbage"} ->
            [raised |-> "JSONDecodeError", request |-> NoRequest]
      [] payload.kind = "nondict" ->
            [raised |-> "AttributeError", request |-> NoRequest]
      [] OTHER ->
            [raised |-> "none", request |-> payload.doc]

error_response(e) ==
    [success |-> FALSE, stdout |-> <<>>, stderr |-> <<>>,
     error |-> <<"Kernel error", e>>]

\* ---------------------------------------------------------- listener ----
\* an accept loop that hands each connection to a thread
ListenerIdle_threaded == TRUE

\* the accept loop calls handle_client and only then accepts again
ListenerIdle == \A c \in Conns : st[c] \notin Handling

FreeConn(c) ==
    /\ st[c] = "free"
    /\ \A d \in Conns : st[d] = "free" => c <= d

\* ------------------------------------------------------------ framing ---
\* bytes are sequences of characters; these three are named
Newline == "LF"
Quote == "QT"
Backslash == "BS"

\* b"\n__END__\n"
Sentinel == <<Newline, "_", "_", "E", "N", "D", "_", "_", Newline>>

\* an encoder that leaves the newline as it is
escape_char_raw(ch) ==
    CASE ch = Quote -> <<Backslash, Quote>>
      [] ch = Backslash -> <<Backslash, Backslash>>
      [] OTHER -> <<ch>>

\* json.dumps of one character of a string
escape_char(ch) ==
    CASE ch = Newline -> <<Backslash, "n">>
      [] ch = Quote -> <<Backslash, Quote>>
      [] ch = Backslash -> <<Backslash, Backslash>>
      [] OTHER -> <<ch>>

\* json.dumps of the characters of a string, one after the other (the
\* text is halved so that long texts do not evaluate deeply)
RECURSIVE json_escape(_)
json_escape(text) ==
    IF Len(text) = 0 THEN <<>>
    ELSE IF Len(text) = 1 THEN escape_char(text[1])
    ELSE LET m == Len(text) \div 2
         IN  json_escape(SubSeq(text, 1, m))
                 \o json_escape(SubSeq(text, m + 1, Len(text)))

\* json.dumps of a string
json_string(text) == <<Quote>> \o json_escape(text) \o <<Quote>>

\* json.dumps of a request: a dict, here the sequence of its
\* <<key, value>> items, with the separators ", " and ": "
json_dumps(doc) ==
    LET body[i \in 0..Len(doc)] ==
            IF i = 0 THEN <<>>
            ELSE body[i - 1] \o (IF i > 1 THEN <<",", " ">> ELSE <<>>)
                     \o json_string(doc[i][1]) \o <<":", " ">>
                     \o json_string(doc[i][2])
    IN  <<"{">> \o body[Len(doc)] \o <<"}">>

\* one character read by the JSON scanner: p.at is its place in the
\* grammar of an object of strings, p.items the items completed, p.key
\* and p.text the strings being read
scan(p, ch) ==
    LET ws == ch \in {" ", Newline}
        to(at) == [p EXCEPT !.at = at]
        fail == [p EXCEPT !.at = "fail"]
    IN  CASE p.at = "start" ->
                IF ws THEN p ELSE IF ch = "{" THEN to("first") ELSE fail
          [] p.at = "first" ->
                IF ws THEN p
                ELSE IF ch = "}" THEN to("end")
                ELSE IF ch = Quote THEN [p EXCEPT !.at = "key", !.key = <<>>]
                ELSE fail
          [] p.at = "next" ->
                IF ws THEN p
                ELSE IF ch = Quote THEN [p EXCEPT !.at = "key", !.key = <<>>]
                ELSE fail
          [] p.at = "key" ->
                IF ch = Quote THEN to("colon")
                ELSE IF ch = Backslash THEN to("key_escape")
                ELSE IF ch = Newline THEN fail
                ELSE [p EXCEPT !.key = Append(p.key, ch)]
          [] p.at = "key_escape" ->
                IF ch \in {Quote, Backslash}
                THEN [p EXCEPT !.at = "key", !.key = Append(p.key, ch)]
                ELSE IF ch = "n"
                THEN [p EXCEPT !.at = "key", !.key = Append(p.key, Newline)]
                ELSE fail
          [] p.at = "colon" ->
                IF ws THEN p ELSE IF ch = ":" THEN to("value") ELSE fail
          [] p.at = "value" ->
                IF ws THEN p
                ELSE IF ch = Quote THEN [p EXCEPT !.at = "text", !.text = <<>>]
                ELSE fail
          [] p.at = "text" ->
                IF ch = Quote
                THEN [p EXCEPT !.at = "after",
                               !.items = Append(p.items, <<p.key, p.text>>)]
                ELSE IF ch = Backslash THEN to("text_escape")
                ELSE IF ch = Newline THEN fail
                ELSE [p EXCEPT !.text = Append(p.text, ch)]
          [] p.at = "text_escape" ->
                IF ch \in {Quote, Backslash}
                THEN [p EXCEPT !.at = "text", !.text = Append(p.text, ch)]
                ELSE IF ch = "n"
                THEN [p EXCEPT !.at = "text", !.text = Append(p.text, Newline)]
                ELSE fail
          [] p.at = "after" ->
                IF ws THEN p
                ELSE IF ch = "," THEN to("next")
                ELSE IF ch = "}" THEN to("end")
                ELSE fail
          [] p.at = "end" -> IF ws THEN p ELSE fail
          [] OTHER -> fail

\* the scanner over bytes[i..j], left to right, ended by the first
\* character it cannot accept (the range is halved, the left half read
\* before the right one)
RECURSIVE scan_all(_, _, _, _)
scan_all(p, bytes, i, j) ==
    IF i > j THEN p
    ELSE IF i = j THEN scan(p, bytes[i])
    ELSE LET m == (i + j) \div 2
             left == scan_all(p, bytes, i, m)
         IN  IF left.at = "fail" THEN left
             ELSE scan_all(left, bytes, m + 1, j)

\* json.loads(data.decode("utf-8")): the dict, or the error it raises
json_loads(bytes) ==
    LET p == scan_all([at |-> "start", items |-> <<>>, key |-> <<>>,
                       text |-> <<>>], bytes, 1, Len(bytes))
    IN  IF p.at = "end" THEN [ok |-> TRUE, value |-> p.items]
        ELSE [ok |-> FALSE, value |-> <<>>]

\* bytes.replace(old, b""): every occurrence of old, left to right
RECURSIVE replace(_, _)
replace(bytes, old) ==
    LET k == Len(old)
        found == {i \in 1..(Len(bytes) - k + 1) :
                     SubSeq(bytes, i, i + k - 1) = old}
    IN  IF found = {} THEN bytes
        ELSE LET i == CHOOSE x \in found : \A y \in found : x <= y
             IN  SubSeq(bytes, 1, i - 1)
                     \o replace(SubSeq(bytes, i + k, Len(bytes)), old)

\* the keys of a request
KeyCode == <<"c", "o", "d", "e">>
KeyAction == <<"a", "c", "t", "i", "o", "n">>
KeyPattern == <<"p", "a", "t", "t", "e", "r", "n">>

\* code and pattern texts: empty, a letter, two lines, the sentinel's own
\* bytes, quotes and braces
FramedTexts ==
    {<<>>, <<"x">>, <<"x", Newline, "y">>, Sentinel, <<Quote, "}">>,
     <<"{", Backslash, "n">>, <<"}", Newline>>}

\* {"code": code} of _execute_in_kernel, {"action": action, **kwargs} of
\* _send_kernel_command
FramedDocs ==
    {<<<<KeyCode, text>>>> : text \in FramedTexts}
        \cup {<<<<KeyAction, <<"r", "e", "s", "e", "t">>>>>>}
        \cup {<<<<KeyAction, <<"i", "n", "s", "p", "e", "c", "t">>>>,
                <<KeyPattern, text>>>> : text \in {<<>>, <<"x">>, <<Quote>>}}

InitFraming ==
    /\ fdoc = <<>>
    /\ pending = <<>>
    /\ fdata = <<>>
    /\ fst = "idle"
    /\ frequest = [ok |-> FALSE, value |-> <<>>]

\* the sender: sock.sendall(request + b"\n__END__\n")
sendall_request ==
    /\ fst = "idle"
    /\ \E doc \in FramedDocs :
        /\ fdoc' = doc
        /\ pending' = json_dumps(doc) \o Sentinel
    /\ fdata' = <<>>
    /\ fst' = "reading"
    /\ UNCHANGED frequest
    /\ UNCHANGED <<kernel, global_namespace, sys_stdout, backlog, st, data,
                   request, ip, capture_stdout, original_stdout, result,
                   sendalls, wire, now, KERNEL_START_TIME, offered, reported>>
    /\ UNCHANGED <<hist, svars>>

\* handle_client: one pass of the receive loop, conn.recv giving any
\* non-empty part of what was sent: the sentinel check (and its removal),
\* else the attempt to parse; when the loop ends, `request = json.loads`
recv_chunk ==
    /\ fst = "reading"
    /\ pending # <<>>
    /\ \E n \in 1..Len(pending) :
        LET got == fdata \o SubSeq(pending, 1, n)
            ends == contains(Sentinel, got)
            after == IF ends THEN replace(got, Sentinel) ELSE got
        IN  /\ pending' = SubSeq(pending, n + 1, Len(pending))
            /\ fdata' = after
            /\ IF ends \/ json_loads(got).ok
               THEN /\ fst' = "stopped"
                    /\ frequest' = json_loads(after)
               ELSE UNCHANGED <<fst, frequest>>
    /\ UNCHANGED fdoc
    /\ UNCHANGED <<kernel, global_namespace, sys_stdout, backlog, st, data,
                   request, ip, capture_stdout, original_stdout, result,
                   sendalls, wire, now, KERNEL_START_TIME, offered, reported>>
    /\ UNCHANGED <<hist, svars>>

InitKernel ==
    /\ kernel = "listening"
    /\ global_namespace = FreshNamespace
    /\ sys_stdout = "original"
    /\ backlog = <<>>
    /\ st = [c \in Conns |-> "free"]
    /\ data = [c \in Conns |-> "none"]
    /\ request = [c \in Conns |-> NoRequest]
    /\ ip = [c \in Conns |-> 0]
    /\ capture_stdout = [c \in Conns |-> <<>>]
    /\ original_stdout = [c \in Conns |-> "none"]
    /\ result = [c \in Conns |-> NoResult]
    /\ sendalls = [c \in Conns |-> 0]
    /\ wire = [c \in Conns |-> "nothing"]
    /\ bound = [n \in ProgIdents |-> "unbound"]
    /\ cleared = {}
    /\ faulted = {}
    /\ now = 0
    /\ KERNEL_START_TIME = 0
    /\ reported = 0
    /\ InitFraming

InitCallers ==
    /\ cfn = [s \in Sups |-> "none"]
    /\ cpc = [s \in Sups |-> "idle"]
    /\ retry = [s \in Sups |-> TRUE]
    /\ cattempt = [s \in Sups |-> 0]
    /\ response = [s \in Sups |-> "empty"]
    /\ elapsed = [s \in Sups |-> 0]
    /\ outcome = [s \in Sups |-> "none"]
    /\ exchanges = [s \in Sups |-> 0]
    /\ empties = [s \in Sups |-> 0]
    /\ expired = [s \in Sups |-> FALSE]
    /\ cut = [s \in Sups |-> FALSE]
    /\ start_fails = [s \in Sups |-> 0]
    /\ start_calls = [s \in Sups |-> 0]
    /\ refusals = [s \in Sups |-> 0]
    /\ ensured = [s \in Sups |-> FALSE]
    /\ executions = [s \in Sups |-> 0]

\* the MCP server process has been started and runs
InitProcess ==
    /\ mpc = [s \in Sups |-> "running"]
    /\ hook_stops = [s \in Sups |-> 0]
    /\ term = [s \in Sups |-> "none"]

InitSupervisors ==
    /\ proc = [p \in Procs |-> "unborn"]
    /\ KERNEL_PROCESS = [s \in Sups |-> NoProcess]
    /\ spc = [s \in Sups |-> "idle"]
    /\ poll_i = [s \in Sups |-> 0]
    /\ ret = [s \in Sups |-> FALSE]
    /\ kpc = [s \in Sups |-> "idle"]
    /\ rpc = [s \in Sups |-> "idle"]
    /\ attempt = [s \in Sups |-> 0]
    /\ rret = [s \in Sups |-> FALSE]
    /\ stops = [s \in Sups |-> 0]
    /\ starts = [s \in Sups |-> 0]
    /\ oks = [s \in Sups |-> 0]
    /\ served_before = [s \in Sups |-> {}]
    /\ owned_at_stop = [s \in Sups |-> NoProcess]
    /\ InitProcess
    /\ InitCallers
    /\ kside = [s \in Sups |-> "abstract"]

Init ==
    /\ InitKernel
    /\ InitSupervisors
    /\ offered = "any"
    /\ script_exists = [s \in Sups |-> TRUE]
    /\ platform = "posix"
    /\ psutil_importable = TRUE

\* the locals of handle_client and execute_code end with the call
drop_locals(S) ==
    /\ request' = [d \in Conns |-> IF d \in S THEN NoRequest ELSE request[d]]
    /\ ip' = [d \in Conns |-> IF d \in S THEN 0 ELSE ip[d]]
    /\ capture_stdout' =
          [d \in Conns |-> IF d \in S THEN <<>> ELSE capture_stdout[d]]
    /\ original_stdout' =
          [d \in Conns |-> IF d \in S THEN "none" ELSE original_stdout[d]]
    /\ result' = [d \in Conns |-> IF d \in S THEN NoResult ELSE result[d]]

\* the process ends: accepted connections are closed by `finally`, the
\* connections still in the listen queue are reset
process_exit ==
    /\ kernel' = "exited"
    /\ st' = [d \in Conns |->
                IF st[d] \in Handling THEN "closed"
                ELSE IF st[d] = "backlog" THEN "reset"
                ELSE st[d]]
    /\ backlog' = <<>>
    /\ drop_locals({d \in Conns : st[d] \in Handling})

\* a client connects to the endpoint; the connection waits in the backlog
connect(c) ==
    /\ kernel = "listening"
    /\ FreeConn(c)
    /\ Len(backlog) < LISTEN_BACKLOG
    /\ st' = [st EXCEPT ![c] = "backlog"]
    /\ backlog' = Append(backlog, c)
    /\ UNCHANGED <<kernel, global_namespace, sys_stdout, data, request, ip,
                   capture_stdout, original_stdout, result, sendalls, wire>>
    /\ UNCHANGED <<hist, svars, tvars>>

\* conn, addr = server.accept()
accept(c) ==
    /\ kernel = "listening"
    /\ ListenerIdle
    /\ backlog # <<>>
    /\ c = Head(backlog)
    /\ backlog' = Tail(backlog)
    /\ st' = [st EXCEPT ![c] = "recv"]
    /\ UNCHANGED <<kernel, global_namespace, sys_stdout, data, request, ip,
                   capture_stdout, original_stdout, result, sendalls, wire>>
    /\ UNCHANGED <<hist, svars, tvars>>

\* one request of each kind: an execute that binds a name, an inspect, a
\* reset and a status
UptimePayloads ==
    {p \in Payloads :
        /\ p.kind = "doc"
        /\ \/ "pattern" \notin DOMAIN p.doc /\ "code" \notin DOMAIN p.doc
           \/ /\ "code" \in DOMAIN p.doc
              /\ Len(p.doc.code) = 1
              /\ p.doc.code[1].op = "bind"}

\* requests of peers other than the RPC Caller: the action field absent,
\* "execute" or unknown, with and without a code field, next to two known
\* actions
DefaultPayloads ==
    LET codes == {p \in Codes : Len(p) <= 1}
    IN  {[kind |-> "doc", doc |-> d] :
            d \in {[code |-> p] : p \in codes}
                \cup {[action |-> a, code |-> p] :
                        a \in {"execute", "bogus"}, p \in codes}
                \cup {[action |-> "execute"], [action |-> "bogus"],
                      [action |-> "inspect"], [action |-> "status"]}}

\* names a namespace may hold when it is inspected: plain, with an upper
\* case letter, with the reserved prefix, with "_" inside
InspectNames ==
    {<<"x">>, <<"X", "q">>, <<"_", "x">>, <<"q", "x">>, <<"q">>, <<"x", "_">>}

InspectValues == {"v1", Unprintable}

InspectPatterns == Patterns \cup {<<"x", "q">>, <<"_">>}

\* the namespaces over those names, `__name__` always there
InspectNamespaces ==
    UNION {{[n \in D \cup {DunderName} |->
                IF n = DunderName THEN "__main__" ELSE f[n]] :
              f \in [D -> InspectValues]} : D \in SUBSET InspectNames}

\* inspect requests with and without a pattern
InspectPayloads ==
    {[kind |-> "doc", doc |-> d] :
        d \in {[action |-> "inspect", pattern |-> pat] : pat \in InspectPatterns}
              \cup {[action |-> "inspect"]}}

\* the payloads a receive loop may end with
OfferedPayloads ==
    CASE offered = "each" -> UptimePayloads
      [] offered = "default" -> DefaultPayloads
      [] offered = "inspect" -> InspectPayloads
      [] OTHER -> Payloads

\* handle_client: the receive loop, `if not data: return`, json.loads; an
\* Exception is answered with the error response, anything else leaves
\* handle_client and the accept loop
handle_client_recv(c) ==
    /\ kernel = "listening"
    /\ st[c] = "recv"
    /\ \E payload \in OfferedPayloads :
        /\ data' = [data EXCEPT ![c] = payload.kind]
        /\ IF no_data(payload)
           THEN /\ st' = [st EXCEPT ![c] = "closed"]
                /\ UNCHANGED <<kernel, backlog, request, result, ip,
                               capture_stdout, original_stdout>>
           ELSE LET d == decode(payload)
                IN  IF d.raised = "none"
                    THEN /\ st' = [st EXCEPT ![c] = "dispatch"]
                         /\ request' = [request EXCEPT ![c] = d.request]
                         /\ UNCHANGED <<kernel, backlog, result, ip,
                                        capture_stdout, original_stdout>>
                    ELSE IF except_Exception(d.raised)
                    THEN /\ st' = [st EXCEPT ![c] = "respond"]
                         /\ result' = [result EXCEPT ![c] =
                                          error_response(d.raised)]
                         /\ UNCHANGED <<kernel, backlog, request, ip,
                                        capture_stdout, original_stdout>>
                    ELSE process_exit
    /\ UNCHANGED <<global_namespace, sys_stdout, sendalls, wire>>
    /\ UNCHANGED <<hist, svars, tvars>>

\* a dispatcher whose default action is status
default_action_status == "status"

\* request.get("action", "execute")
default_action == "execute"

\* handle_client: route by action; inspect, reset and status run here,
\* execute_code is entered (sys.stdout swapped for the capture buffer)
handle_client_dispatch(c) ==
    /\ kernel = "listening"
    /\ st[c] = "dispatch"
    /\ LET action == Get(request[c], "action", default_action)
       IN  CASE action = "inspect" ->
                    LET r == handle_inspect(global_namespace,
                                            Get(request[c], "pattern", <<>>))
                    IN  /\ global_namespace' = r.ns
                        /\ result' = [result EXCEPT ![c] = r.result]
                        /\ st' = [st EXCEPT ![c] = "respond"]
                        /\ UNCHANGED <<sys_stdout, ip, capture_stdout,
                                       original_stdout, hist>>
             [] action = "reset" ->
                    LET r == handle_reset(global_namespace)
                    IN  /\ global_namespace' = r.ns
                        /\ result' = [result EXCEPT ![c] = r.result]
                        /\ st' = [st EXCEPT ![c] = "respond"]
                        /\ cleared' = cleared \cup
                               {n \in ProgIdents : bound[n] # "unbound"}
                        /\ bound' = [n \in ProgIdents |-> "unbound"]
                        /\ faulted' = {}
                        /\ UNCHANGED <<sys_stdout, ip, capture_stdout,
                                       original_stdout>>
             [] action = "status" ->
                    LET r == handle_status(global_namespace)
                    IN  /\ global_namespace' = r.ns
                        /\ result' = [result EXCEPT ![c] = r.result]
                        /\ st' = [st EXCEPT ![c] = "respond"]
                        /\ UNCHANGED <<sys_stdout, ip, capture_stdout,
                                       original_stdout, hist>>
             [] OTHER ->
                    /\ original_stdout' = [original_stdout EXCEPT ![c] = sys_stdout]
                    /\ sys_stdout' = "capture"
                    /\ capture_stdout' = [capture_stdout EXCEPT ![c] = <<>>]
                    /\ ip' = [ip EXCEPT ![c] = 1]
                    /\ st' = [st EXCEPT ![c] = "exec"]
                    /\ UNCHANGED <<global_namespace, result, hist>>
    /\ reported' = IF Get(request[c], "action", default_action) = "status"
                    THEN uptime(now, KERNEL_START_TIME)
                    ELSE reported
    /\ UNCHANGED <<kernel, backlog, data, request, sendalls, wire, svars,
                   now, KERNEL_START_TIME, offered, fvars>>

Code(c) == Get(request[c], "code", <<>>)

\* the names the statements 1..k of a code bind
BoundBy(code, k) ==
    {code[j].name : j \in {j \in 1..k : code[j].op = "bind"}}

\* execute_code: exec runs the next statement of the code; an Exception is
\* caught and reported, SystemExit leaves execute_code, handle_client and
\* the accept loop (their `finally` clauses run) and ends the process
execute_code_step(c) ==
    /\ kernel = "listening"
    /\ st[c] = "exec"
    /\ ip[c] <= Len(Code(c))
    /\ LET s == Code(c)[ip[c]]
           r == exec_statement(global_namespace, s)
       IN  /\ global_namespace' = r.ns
           /\ bound' = IF s.op = "bind"
                       THEN [bound EXCEPT ![s.name] = s.val]
                       ELSE bound
           /\ cleared' = IF s.op = "bind" THEN cleared \ {s.name} ELSE cleared
           /\ IF r.raised = "none"
              THEN /\ ip' = [ip EXCEPT ![c] = ip[c] + 1]
                   /\ capture_stdout' = [capture_stdout EXCEPT ![c] =
                          capture_stdout[c] \o r.printed]
                   /\ faulted' = IF s.op = "bind"
                                 THEN faulted \ {s.name} ELSE faulted
                   /\ UNCHANGED <<kernel, sys_stdout, backlog, st, result,
                                  request, original_stdout>>
              ELSE IF except_Exception(r.raised)
              THEN /\ result' = [result EXCEPT ![c] =
                          [success |-> FALSE,
                           stdout |-> capture_stdout[c] \o r.printed,
                           stderr |-> <<>>,
                           error |-> <<"Traceback", r.raised>>]]
                   /\ sys_stdout' = finally_restore(original_stdout[c], r.raised)
                   /\ st' = [st EXCEPT ![c] = "respond"]
                   /\ faulted' = faulted \cup BoundBy(Code(c), ip[c] - 1)
                   /\ UNCHANGED <<kernel, backlog, ip, capture_stdout,
                                  request, original_stdout>>
              ELSE /\ sys_stdout' = finally_restore(original_stdout[c], r.raised)
                   /\ process_exit
                   /\ UNCHANGED faulted
    /\ UNCHANGED <<data, sendalls, wire, svars, tvars>>

\* execute_code: exec returned; the success result, `finally`, return
execute_code_return(c) ==
    /\ kernel = "listening"
    /\ st[c] = "exec"
    /\ ip[c] > Len(Code(c))
    /\ result' = [result EXCEPT ![c] =
          [success |-> TRUE, stdout |-> capture_stdout[c],
           stderr |-> <<>>, error |-> "None"]]
    /\ sys_stdout' = finally_restore(original_stdout[c], "none")
    /\ st' = [st EXCEPT ![c] = "respond"]
    /\ UNCHANGED <<kernel, global_namespace, backlog, data, request, ip,
                   capture_stdout, original_stdout, sendalls, wire>>
    /\ UNCHANGED <<hist, svars, tvars>>

\* handle_client: conn.sendall(response) (a failure is swallowed), then
\* `finally: conn.close()`
handle_client_respond(c) ==
    /\ kernel = "listening"
    /\ st[c] = "respond"
    /\ sendalls' = [sendalls EXCEPT ![c] = sendalls[c] + 1]
    /\ wire' = [wire EXCEPT ![c] = IF wire[c] = "gone" THEN "gone"
                                   ELSE "response"]
    /\ st' = [st EXCEPT ![c] = "closed"]
    /\ drop_locals({c})
    /\ UNCHANGED <<kernel, global_namespace, sys_stdout, backlog, data>>
    /\ UNCHANGED <<hist, svars, tvars>>

\* the client of a connection stops waiting for the response and closes
\* its socket (sock.close() on the total deadline, or a recv timeout).
\* The kernel meets the closed socket only at conn.sendall, so the close
\* is placed while the request is executed or its result is ready
client_gives_up(c) ==
    /\ st[c] \in {"exec", "respond"}
    /\ wire[c] = "nothing"
    /\ wire' = [wire EXCEPT ![c] = "gone"]
    /\ UNCHANGED <<kernel, global_namespace, sys_stdout, backlog, st, data,
                   request, ip, capture_stdout, original_stdout, result,
                   sendalls>>
    /\ UNCHANGED <<hist, svars, tvars>>

\* the client is done with a closed connection
release(c) ==
    /\ st[c] \in {"closed", "reset"}
    /\ st' = [st EXCEPT ![c] = "free"]
    /\ data' = [data EXCEPT ![c] = "none"]
    /\ sendalls' = [sendalls EXCEPT ![c] = 0]
    /\ wire' = [wire EXCEPT ![c] = "nothing"]
    /\ UNCHANGED <<kernel, global_namespace, sys_stdout, backlog, request, ip,
                   capture_stdout, original_stdout, result>>
    /\ UNCHANGED <<hist, svars, tvars>>

Next ==
    \E c \in Conns :
        \/ connect(c)
        \/ accept(c)
        \/ handle_client_recv(c)
        \/ handle_client_dispatch(c)
        \/ execute_code_step(c)
        \/ execute_code_return(c)
        \/ handle_client_respond(c)
        \/ client_gives_up(c)
        \/ release(c)

Spec == Init /\ [][Next]_vars

\* time passes in the kernel process
tick ==
    /\ kernel = "listening"
    /\ now < MaxTime
    /\ now' = now + 1
    /\ UNCHANGED <<kernel, global_namespace, sys_stdout, backlog, st, data,
                   request, ip, capture_stdout, original_stdout, result,
                   sendalls, wire, KERNEL_START_TIME, offered, reported,
                   fvars>>
    /\ UNCHANGED <<hist, svars>>

InitUptime ==
    /\ InitKernel
    /\ InitSupervisors
    /\ offered = "each"
    /\ script_exists = [s \in Sups |-> TRUE]
    /\ platform = "posix"
    /\ psutil_importable = TRUE

NextUptime == Next \/ tick

\* the kernel serving peers that send requests of their own making
InitDispatch ==
    /\ InitKernel
    /\ InitSupervisors
    /\ offered = "default"
    /\ script_exists = [s \in Sups |-> TRUE]
    /\ platform = "posix"
    /\ psutil_importable = TRUE

SpecDispatch == InitDispatch /\ [][Next]_vars

\* a kernel whose namespace earlier requests have filled, serving inspect
\* requests one client at a time
InitInspect ==
    /\ kernel = "listening"
    /\ global_namespace \in InspectNamespaces
    /\ sys_stdout = "original"
    /\ backlog = <<>>
    /\ st = [c \in Conns |-> "free"]
    /\ data = [c \in Conns |-> "none"]
    /\ request = [c \in Conns |-> NoRequest]
    /\ ip = [c \in Conns |-> 0]
    /\ capture_stdout = [c \in Conns |-> <<>>]
    /\ original_stdout = [c \in Conns |-> "none"]
    /\ result = [c \in Conns |-> NoResult]
    /\ sendalls = [c \in Conns |-> 0]
    /\ wire = [c \in Conns |-> "nothing"]
    /\ bound = [n \in ProgIdents |->
                  IF n \in DOMAIN global_namespace THEN global_namespace[n]
                  ELSE "unbound"]
    /\ cleared = {}
    /\ faulted = {}
    /\ now = 0
    /\ KERNEL_START_TIME = 0
    /\ reported = 0
    /\ InitFraming
    /\ InitSupervisors
    /\ offered = "inspect"
    /\ script_exists = [s \in Sups |-> TRUE]
    /\ platform = "posix"
    /\ psutil_importable = TRUE

NextInspect ==
    \E c \in Conns :
        \/ (\A d \in Conns : st[d] = "free") /\ connect(c)
        \/ accept(c)
        \/ handle_client_recv(c)
        \/ handle_client_dispatch(c)
        \/ handle_client_respond(c)
        \/ release(c)

SpecInspect == InitInspect /\ [][NextInspect]_vars

\* the framing of one request, from sendall to the decoded request
NextFraming == sendall_request \/ recv_chunk

SpecFraming == Init /\ [][NextFraming]_vars

SpecUptime == InitUptime /\ [][NextUptime]_vars

\* -------------------------------------------------------- supervisor ---
\* some kernel process listens on (KERNEL_HOST, KERNEL_PORT)
Reachable == \E p \in Procs : proc[p] = "listening"

\* a probe that never connects
probe_connects_never == FALSE

\* sock.connect((KERNEL_HOST, KERNEL_PORT)) succeeds
probe_connects == Reachable

\* Popen.poll() is None
alive(p) == proc[p] \in {"starting", "listening"}

\* server.setsockopt(SO_REUSEADDR), bind, listen: refused while another
\* socket listens on the endpoint, except on win32, where SO_REUSEADDR lets
\* a second socket bind a port that is in use
bind_succeeds == ~Reachable \/ platform = "win32"

InitSup ==
    /\ InitKernel
    /\ InitSupervisors
    /\ offered = "any"
    /\ script_exists \in [Sups -> BOOLEAN]
    /\ platform \in {"posix", "win32"}
    /\ psutil_importable = TRUE

\* _start_kernel is called: `if not kernel_script.exists(): return False`
start_kernel_call(s) ==
    /\ spc[s] = "idle"
    /\ IF script_exists[s]
       THEN /\ spc' = [spc EXCEPT ![s] = "probe"]
            /\ UNCHANGED ret
       ELSE /\ spc' = [spc EXCEPT ![s] = "done"]
            /\ ret' = [ret EXCEPT ![s] = FALSE]
    /\ UNCHANGED <<script_exists, platform, proc, KERNEL_PROCESS, poll_i, kvars, rvars, cvars>>

\* _start_kernel: the first probe; `return True` when it connects
start_kernel_probe(s) ==
    /\ spc[s] = "probe"
    /\ IF probe_connects
       THEN /\ spc' = [spc EXCEPT ![s] = "done"]
            /\ ret' = [ret EXCEPT ![s] = TRUE]
       ELSE /\ spc' = [spc EXCEPT ![s] = "owned"]
            /\ UNCHANGED ret
    /\ UNCHANGED <<script_exists, platform, proc, KERNEL_PROCESS, poll_i, kvars, rvars, cvars>>

\* _start_kernel: an owned handle is terminated if still running, and
\* dropped
start_kernel_owned(s) ==
    /\ spc[s] = "owned"
    /\ IF KERNEL_PROCESS[s] # NoProcess
       THEN /\ proc' = IF alive(KERNEL_PROCESS[s])
                       THEN [proc EXCEPT ![KERNEL_PROCESS[s]] = "exited"]
                       ELSE proc
            /\ KERNEL_PROCESS' = [KERNEL_PROCESS EXCEPT ![s] = NoProcess]
       ELSE UNCHANGED <<proc, KERNEL_PROCESS>>
    /\ spc' = [spc EXCEPT ![s] = "spawn"]
    /\ UNCHANGED <<script_exists, platform, poll_i, ret, kvars, rvars, cvars>>

UnbornProc(p) ==
    /\ proc[p] = "unborn"
    /\ \A q \in Procs : proc[q] = "unborn" => p <= q

\* _start_kernel: subprocess.Popen starts a kernel process
start_kernel_spawn(s) ==
    /\ spc[s] = "spawn"
    /\ \E p \in Procs :
        /\ UnbornProc(p)
        /\ proc' = [proc EXCEPT ![p] = "starting"]
        /\ KERNEL_PROCESS' = [KERNEL_PROCESS EXCEPT ![s] = p]
    /\ poll_i' = [poll_i EXCEPT ![s] = 0]
    /\ spc' = [spc EXCEPT ![s] = "poll"]
    /\ UNCHANGED <<script_exists, platform, ret, kvars, rvars, cvars>>

\* _start_kernel: subprocess.Popen raises; `return False`
start_kernel_spawn_fails(s) ==
    /\ spc[s] = "spawn"
    /\ spc' = [spc EXCEPT ![s] = "done"]
    /\ ret' = [ret EXCEPT ![s] = FALSE]
    /\ UNCHANGED <<script_exists, platform, proc, KERNEL_PROCESS, poll_i, kvars, rvars, cvars>>

\* a polling loop that has no last round
last_round_never(i) == FALSE

\* `for i in range(50)`: round i is the last one
last_round(i) == i + 1 = PollAttempts

\* _start_kernel: one round of `for i in range(50)`: sleep, probe; `return
\* True` when it connects, `return False` when the child has exited or
\* this was the last round
start_kernel_poll(s) ==
    /\ spc[s] = "poll"
    /\ poll_i[s] < PollAttempts
    /\ IF probe_connects
       THEN /\ spc' = [spc EXCEPT ![s] = "done"]
            /\ ret' = [ret EXCEPT ![s] = TRUE]
            /\ UNCHANGED poll_i
       ELSE IF ~alive(KERNEL_PROCESS[s]) \/ last_round(poll_i[s])
       THEN /\ spc' = [spc EXCEPT ![s] = "done"]
            /\ ret' = [ret EXCEPT ![s] = FALSE]
            /\ UNCHANGED poll_i
       ELSE /\ poll_i' = [poll_i EXCEPT ![s] = poll_i[s] + 1]
            /\ UNCHANGED <<spc, ret>>
    /\ UNCHANGED <<script_exists, platform, proc, KERNEL_PROCESS, kvars, rvars, cvars>>

\* the caller has the value _start_kernel returned
start_kernel_returned(s) ==
    /\ spc[s] = "done"
    /\ spc' = [spc EXCEPT ![s] = "idle"]
    /\ ret' = [ret EXCEPT ![s] = FALSE]
    /\ poll_i' = [poll_i EXCEPT ![s] = 0]
    /\ UNCHANGED <<script_exists, platform, proc, KERNEL_PROCESS, kvars, rvars, cvars>>

\* start_kernel_server in a spawned process: bind and listen, or
\* `except Exception: sys.exit(1)`
kernel_bind(p) ==
    /\ proc[p] = "starting"
    /\ proc' = [proc EXCEPT ![p] = IF bind_succeeds THEN "listening"
                                   ELSE "exited"]
    /\ UNCHANGED <<script_exists, platform, KERNEL_PROCESS, spc, poll_i, ret, kvars, rvars, cvars>>

\* a listening kernel process ends (submitted code raised SystemExit)
kernel_exit(p) ==
    /\ proc[p] = "listening"
    /\ proc' = [proc EXCEPT ![p] = "exited"]
    /\ UNCHANGED <<script_exists, platform, KERNEL_PROCESS, spc, poll_i, ret, kvars, rvars, cvars>>

NextSup ==
    \/ \E s \in Sups :
        \/ start_kernel_call(s)
        \/ start_kernel_probe(s)
        \/ start_kernel_owned(s)
        \/ start_kernel_spawn(s)
        \/ start_kernel_spawn_fails(s)
        \/ start_kernel_poll(s)
        \/ start_kernel_returned(s)
    \/ \E p \in Procs :
        \/ kernel_bind(p)
        \/ kernel_exit(p)

SpecSup == InitSup /\ [][NextSup]_vars

\* ------------------------------------------------- stop and restart ---
\* the supervisor that stops and restarts the kernel
Restarter == "s1"

\* neither _stop_kernel nor _restart_kernel is running in supervisor s
toplevel(s) == rpc[s] = "idle" /\ kpc[s] = "idle"

\* what terminate() followed by wait(timeout=3) may find: the process
\* ended (TRUE) or is still running (FALSE).  TerminateProcess on win32
\* always ends it, and so does SIGTERM in a process that has run no
\* submitted code; code a listening kernel ran may have set SIGTERM to be
\* ignored
terminate_ends(p) ==
    IF platform = "win32" \/ proc[p] = "starting" THEN {TRUE} ELSE BOOLEAN

\* _stop_kernel: `KERNEL_PROCESS = None` after terminate and wait, whatever
\* wait found
handle_after_stop(handle, ended) == NoProcess

\* _stop_kernel is called, from the top level or by _restart_kernel
stop_kernel_call(s) ==
    /\ kpc[s] = "idle"
    /\ spc[s] = "idle"
    /\ rpc[s] \in {"idle", "stop"}
    /\ kpc' = [kpc EXCEPT ![s] = "owned"]
    /\ stops' = [stops EXCEPT ![s] = IF rpc[s] = "stop" THEN stops[s] + 1
                                     ELSE stops[s]]
    /\ owned_at_stop' = [owned_at_stop EXCEPT ![s] = KERNEL_PROCESS[s]]
    /\ UNCHANGED <<script_exists, platform, proc, KERNEL_PROCESS, spc, poll_i,
                   ret, psutil_importable, rpc, attempt, rret, starts, oks,
                   served_before, hvars, kvars, cvars>>

\* _stop_kernel, step 1: `if KERNEL_PROCESS:` terminate(), wait(timeout=3)
\* with every error swallowed, then `KERNEL_PROCESS = None`
stop_kernel_owned(s) ==
    /\ kpc[s] = "owned"
    /\ LET p == KERNEL_PROCESS[s]
       IN  IF p = NoProcess
           THEN UNCHANGED <<proc, KERNEL_PROCESS>>
           ELSE \E ended \in (IF alive(p) THEN terminate_ends(p) ELSE {TRUE}) :
                  /\ proc' = [proc EXCEPT ![p] =
                                 IF ended THEN "exited" ELSE proc[p]]
                  /\ KERNEL_PROCESS' = [KERNEL_PROCESS EXCEPT ![s] =
                                           handle_after_stop(p, ended)]
    /\ kpc' = [kpc EXCEPT ![s] = "scan"]
    /\ UNCHANGED <<script_exists, platform, spc, poll_i, ret,
                   psutil_importable, rpc, attempt, rret, stops, starts, oks,
                   served_before, owned_at_stop, hvars, kvars, cvars>>

\* _stop_kernel, step 2: with psutil, terminate() and wait(timeout=3) for
\* every process that listens on KERNEL_PORT; `except ImportError: pass`
stop_kernel_scan(s) ==
    /\ kpc[s] = "scan"
    /\ IF psutil_importable
       THEN \E ended \in [Procs -> BOOLEAN] :
              /\ \A p \in Procs :
                    IF proc[p] = "listening"
                    THEN ended[p] \in terminate_ends(p)
                    ELSE ended[p] = FALSE
              /\ proc' = [p \in Procs |->
                             IF ended[p] THEN "exited" ELSE proc[p]]
       ELSE UNCHANGED proc
    /\ kpc' = [kpc EXCEPT ![s] = "done"]
    /\ UNCHANGED <<script_exists, platform, KERNEL_PROCESS, spc, poll_i, ret,
                   psutil_importable, rpc, attempt, rret, stops, starts, oks,
                   served_before, owned_at_stop, hvars, kvars, cvars>>

\* a top-level _stop_kernel has returned
stop_kernel_returned(s) ==
    /\ kpc[s] = "done"
    /\ rpc[s] = "idle"
    /\ kpc' = [kpc EXCEPT ![s] = "idle"]
    /\ UNCHANGED <<script_exists, platform, proc, KERNEL_PROCESS, spc, poll_i,
                   ret, psutil_importable, rpc, attempt, rret, stops, starts,
                   oks, served_before, owned_at_stop, hvars, kvars, cvars>>

\* a restart that goes on to the next attempt whatever _start_kernel returned
return_after_loop(ok) == FALSE

\* _restart_kernel: `if _start_kernel(): return True`
return_on_success(ok) == ok

\* _restart_kernel is called
restart_kernel_call(s) ==
    /\ toplevel(s)
    /\ spc[s] = "idle"
    /\ rpc' = [rpc EXCEPT ![s] = "stop"]
    /\ attempt' = [attempt EXCEPT ![s] = 0]
    /\ rret' = [rret EXCEPT ![s] = FALSE]
    /\ stops' = [stops EXCEPT ![s] = 0]
    /\ starts' = [starts EXCEPT ![s] = 0]
    /\ oks' = [oks EXCEPT ![s] = 0]
    /\ served_before' = [served_before EXCEPT ![s] =
                            {p \in Procs : proc[p] = "listening"}]
    /\ UNCHANGED <<script_exists, platform, proc, KERNEL_PROCESS, spc, poll_i,
                   ret, psutil_importable, kpc, owned_at_stop, hvars, kvars, cvars>>

\* _restart_kernel: _stop_kernel() has returned; time.sleep(2)
restart_kernel_stopped(s) ==
    /\ rpc[s] = "stop"
    /\ kpc[s] = "done"
    /\ kpc' = [kpc EXCEPT ![s] = "idle"]
    /\ rpc' = [rpc EXCEPT ![s] = "start"]
    /\ UNCHANGED <<script_exists, platform, proc, KERNEL_PROCESS, spc, poll_i,
                   ret, psutil_importable, attempt, rret, stops, starts, oks,
                   served_before, owned_at_stop, hvars, kvars, cvars>>

\* _restart_kernel: the loop body calls _start_kernel()
restart_kernel_start(s) ==
    /\ rpc[s] = "start"
    /\ start_kernel_call(s)

\* _restart_kernel: _start_kernel() has returned; `return True`, or sleep
\* and the next attempt, or `return False` after the last one
restart_kernel_started(s) ==
    /\ rpc[s] = "start"
    /\ spc[s] = "done"
    /\ spc' = [spc EXCEPT ![s] = "idle"]
    /\ ret' = [ret EXCEPT ![s] = FALSE]
    /\ poll_i' = [poll_i EXCEPT ![s] = 0]
    /\ starts' = [starts EXCEPT ![s] = starts[s] + 1]
    /\ oks' = [oks EXCEPT ![s] = IF ret[s] THEN oks[s] + 1 ELSE oks[s]]
    /\ IF return_on_success(ret[s])
       THEN /\ rpc' = [rpc EXCEPT ![s] = "done"]
            /\ rret' = [rret EXCEPT ![s] = TRUE]
            /\ UNCHANGED attempt
       ELSE IF attempt[s] + 1 = RestartAttempts
       THEN /\ rpc' = [rpc EXCEPT ![s] = "done"]
            /\ rret' = [rret EXCEPT ![s] = FALSE]
            /\ UNCHANGED attempt
       ELSE /\ attempt' = [attempt EXCEPT ![s] = attempt[s] + 1]
            /\ UNCHANGED <<rpc, rret>>
    /\ UNCHANGED <<script_exists, platform, proc, KERNEL_PROCESS,
                   psutil_importable, kpc, stops, served_before,
                   owned_at_stop, hvars, kvars, cvars>>

\* the caller has the value _restart_kernel returned
restart_kernel_returned(s) ==
    /\ rpc[s] = "done"
    /\ rpc' = [rpc EXCEPT ![s] = "idle"]
    /\ rret' = [rret EXCEPT ![s] = FALSE]
    /\ attempt' = [attempt EXCEPT ![s] = 0]
    /\ UNCHANGED <<script_exists, platform, proc, KERNEL_PROCESS, spc, poll_i,
                   ret, psutil_importable, kpc, stops, starts, oks,
                   served_before, owned_at_stop, hvars, kvars, cvars>>

\* a top-level _start_kernel call of the restarting supervisor
toplevel_start_kernel(s) == toplevel(s) /\ start_kernel_call(s)

\* that call has returned
toplevel_start_returned(s) == toplevel(s) /\ start_kernel_returned(s)

\* one supervisor starts, stops and restarts; a kernel another supervisor
\* started may be listening on the endpoint from the beginning
InitRestart ==
    /\ InitKernel
    /\ offered = "any"
    /\ proc \in {[p \in Procs |-> "unborn"],
                 [p \in Procs |-> IF p = 1 THEN "listening" ELSE "unborn"]}
    /\ KERNEL_PROCESS = [s \in Sups |-> NoProcess]
    /\ spc = [s \in Sups |-> "idle"]
    /\ poll_i = [s \in Sups |-> 0]
    /\ ret = [s \in Sups |-> FALSE]
    /\ kpc = [s \in Sups |-> "idle"]
    /\ rpc = [s \in Sups |-> "idle"]
    /\ attempt = [s \in Sups |-> 0]
    /\ rret = [s \in Sups |-> FALSE]
    /\ stops = [s \in Sups |-> 0]
    /\ starts = [s \in Sups |-> 0]
    /\ oks = [s \in Sups |-> 0]
    /\ served_before = [s \in Sups |-> {}]
    /\ owned_at_stop = [s \in Sups |-> NoProcess]
    /\ InitProcess
    /\ InitCallers
    /\ kside = [s \in Sups |-> "abstract"]
    /\ script_exists \in {f \in [Sups -> BOOLEAN] : \A s \in Sups \ {Restarter} : f[s]}
    /\ platform \in {"posix", "win32"}
    /\ psutil_importable \in BOOLEAN

NextRestart ==
    \/ toplevel_start_kernel(Restarter)
    \/ toplevel_start_returned(Restarter)
    \/ start_kernel_probe(Restarter)
    \/ start_kernel_owned(Restarter)
    \/ start_kernel_spawn(Restarter)
    \/ start_kernel_spawn_fails(Restarter)
    \/ start_kernel_poll(Restarter)
    \/ stop_kernel_call(Restarter)
    \/ stop_kernel_owned(Restarter)
    \/ stop_kernel_scan(Restarter)
    \/ stop_kernel_returned(Restarter)
    \/ restart_kernel_call(Restarter)
    \/ restart_kernel_stopped(Restarter)
    \/ restart_kernel_start(Restarter)
    \/ restart_kernel_started(Restarter)
    \/ restart_kernel_returned(Restarter)
    \/ \E p \in Procs : kernel_bind(p) \/ kernel_exit(p)

SpecRestart == InitRestart /\ [][NextRestart]_vars

\* ---------------------------------------------------------- shutdown ---
\* a module without the atexit registration
atexit_unregistered == FALSE

\* atexit.register(_stop_kernel)
atexit_registered == TRUE

\* where sys.exit(0), raised by the handler in the interrupted frame, may
\* be caught: inside the `try: ... except: pass` of _start_kernel's first
\* probe, after which _start_kernel goes on as if the port were free
sys_exit_outcomes(s) ==
    IF spc[s] = "probe" THEN {"caught", "raised"} ELSE {"raised"}

\* SIGTERM or SIGINT is delivered: _signal_handler calls _stop_kernel(),
\* whatever the main thread was in
signal_handler(s) ==
    /\ mpc[s] = "running"
    /\ kpc[s] = "idle"
    /\ rpc[s] = "idle"
    /\ mpc' = [mpc EXCEPT ![s] = "handler"]
    /\ kpc' = [kpc EXCEPT ![s] = "owned"]
    /\ hook_stops' = [hook_stops EXCEPT ![s] = @ + 1]
    /\ owned_at_stop' = [owned_at_stop EXCEPT ![s] = KERNEL_PROCESS[s]]
    /\ UNCHANGED <<script_exists, platform, proc, KERNEL_PROCESS, spc, poll_i,
                   ret, psutil_importable, rpc, attempt, rret, stops, starts,
                   oks, served_before, term, kvars, cvars>>

\* _signal_handler: _stop_kernel() has returned; sys.exit(0)
signal_handler_exit(s) ==
    /\ mpc[s] = "handler"
    /\ kpc[s] = "done"
    /\ kpc' = [kpc EXCEPT ![s] = "idle"]
    /\ \E outcome_of_exit \in sys_exit_outcomes(s) :
        IF outcome_of_exit = "caught"
        THEN /\ mpc' = [mpc EXCEPT ![s] = "running"]
             /\ spc' = [spc EXCEPT ![s] = "owned"]
             /\ hook_stops' = [hook_stops EXCEPT ![s] = 0]
             /\ UNCHANGED <<poll_i, ret, term>>
        ELSE /\ mpc' = [mpc EXCEPT ![s] = "exiting"]
             /\ term' = [term EXCEPT ![s] = "signal"]
             /\ spc' = [spc EXCEPT ![s] = "idle"]
             /\ poll_i' = [poll_i EXCEPT ![s] = 0]
             /\ ret' = [ret EXCEPT ![s] = FALSE]
             /\ UNCHANGED hook_stops
    /\ UNCHANGED <<script_exists, platform, proc, KERNEL_PROCESS,
                   psutil_importable, rpc, attempt, rret, stops, starts, oks,
                   served_before, owned_at_stop, kvars, cvars>>

\* the main thread comes to its end: the interpreter begins to exit
interpreter_exit(s) ==
    /\ mpc[s] = "running"
    /\ toplevel(s)
    /\ spc[s] = "idle"
    /\ mpc' = [mpc EXCEPT ![s] = "exiting"]
    /\ term' = [term EXCEPT ![s] = "exit"]
    /\ UNCHANGED <<script_exists, platform, proc, KERNEL_PROCESS, spc, poll_i,
                   ret, psutil_importable, kpc, rpc, attempt, rret, stops,
                   starts, oks, served_before, owned_at_stop, hook_stops,
                   kvars, cvars>>

\* the exiting interpreter runs what atexit has registered: _stop_kernel
atexit_run(s) ==
    /\ mpc[s] = "exiting"
    /\ IF atexit_registered
       THEN /\ mpc' = [mpc EXCEPT ![s] = "atexit"]
            /\ kpc' = [kpc EXCEPT ![s] = "owned"]
            /\ hook_stops' = [hook_stops EXCEPT ![s] = @ + 1]
            /\ owned_at_stop' = [owned_at_stop EXCEPT ![s] =
                                    KERNEL_PROCESS[s]]
       ELSE /\ mpc' = [mpc EXCEPT ![s] = "ended"]
            /\ UNCHANGED <<kpc, hook_stops, owned_at_stop>>
    /\ UNCHANGED <<script_exists, platform, proc, KERNEL_PROCESS, spc, poll_i,
                   ret, psutil_importable, rpc, attempt, rret, stops, starts,
                   oks, served_before, term, kvars, cvars>>

\* the registered _stop_kernel has returned: the process ends
process_ends(s) ==
    /\ mpc[s] = "atexit"
    /\ kpc[s] = "done"
    /\ mpc' = [mpc EXCEPT ![s] = "ended"]
    /\ kpc' = [kpc EXCEPT ![s] = "idle"]
    /\ UNCHANGED <<script_exists, platform, proc, KERNEL_PROCESS, spc, poll_i,
                   ret, psutil_importable, rpc, attempt, rret, stops, starts,
                   oks, served_before, owned_at_stop, hook_stops, term,
                   kvars, cvars>>

\* the main thread runs only while no handler and no exit is under way
running(s) == mpc[s] = "running"

\* one MCP server process from its start to its end: the _start_kernel of
\* its start-up, the signals, the exit
NextShutdown ==
    \/ running(Restarter) /\ toplevel_start_kernel(Restarter)
    \/ running(Restarter) /\ toplevel_start_returned(Restarter)
    \/ running(Restarter) /\ start_kernel_probe(Restarter)
    \/ running(Restarter) /\ start_kernel_owned(Restarter)
    \/ running(Restarter) /\ start_kernel_spawn(Restarter)
    \/ running(Restarter) /\ start_kernel_spawn_fails(Restarter)
    \/ running(Restarter) /\ start_kernel_poll(Restarter)
    \/ signal_handler(Restarter)
    \/ stop_kernel_owned(Restarter)
    \/ stop_kernel_scan(Restarter)
    \/ signal_handler_exit(Restarter)
    \/ interpreter_exit(Restarter)
    \/ atexit_run(Restarter)
    \/ process_ends(Restarter)
    \/ \E p \in Procs : kernel_bind(p) \/ kernel_exit(p)

SpecShutdown == InitRestart /\ [][NextShutdown]_vars

\* -------------------------------------------------------- RPC caller ---
\* the MCP server process whose RPC calls are followed
Caller == "s1"

\* a liveness check that looks at the owned handle only
is_kernel_running_by_handle(s) ==
    IF KERNEL_PROCESS[s] = NoProcess
    THEN [running |-> FALSE, handle |-> NoProcess]
    ELSE IF ~alive(KERNEL_PROCESS[s])
    THEN [running |-> FALSE, handle |-> NoProcess]
    ELSE [running |-> TRUE, handle |-> KERNEL_PROCESS[s]]

\* _is_kernel_running: the probe, else the state of the owned handle (a
\* handle whose process has ended is cleared)
is_kernel_running(s) ==
    IF probe_connects
    THEN [running |-> TRUE, handle |-> KERNEL_PROCESS[s]]
    ELSE IF KERNEL_PROCESS[s] = NoProcess
    THEN [running |-> FALSE, handle |-> NoProcess]
    ELSE IF ~alive(KERNEL_PROCESS[s])
    THEN [running |-> FALSE, handle |-> NoProcess]
    ELSE [running |-> TRUE, handle |-> KERNEL_PROCESS[s]]

\* the recursive call made with the default _retry
retry_argument_default == TRUE

\* `return _execute_in_kernel(code, timeout, _retry=False)`
retry_argument == FALSE

\* `if response: break` on the total deadline
deadline_break(resp) == resp # "empty"

\* an RPC function is called: the history of the call starts
begin_call(s, fn, pc) ==
    /\ toplevel(s)
    /\ spc[s] = "idle"
    /\ cpc[s] = "idle"
    /\ cfn' = [cfn EXCEPT ![s] = fn]
    /\ cpc' = [cpc EXCEPT ![s] = pc]
    /\ retry' = [retry EXCEPT ![s] = TRUE]
    /\ cattempt' = [cattempt EXCEPT ![s] = 0]
    /\ response' = [response EXCEPT ![s] = "empty"]
    /\ elapsed' = [elapsed EXCEPT ![s] = 0]
    /\ outcome' = [outcome EXCEPT ![s] = "none"]
    /\ exchanges' = [exchanges EXCEPT ![s] = 0]
    /\ empties' = [empties EXCEPT ![s] = 0]
    /\ expired' = [expired EXCEPT ![s] = FALSE]
    /\ cut' = [cut EXCEPT ![s] = FALSE]
    /\ start_fails' = [start_fails EXCEPT ![s] = 0]
    /\ start_calls' = [start_calls EXCEPT ![s] = 0]
    /\ refusals' = [refusals EXCEPT ![s] = 0]
    /\ ensured' = [ensured EXCEPT ![s] = FALSE]
    /\ executions' = [executions EXCEPT ![s] = 0]
    /\ kside' = [kside EXCEPT ![s] = IF @ = "abstract" THEN @ ELSE "none"]

\* the RPC function returns (or raises) what
return_outcome(s, what) ==
    /\ outcome' = [outcome EXCEPT ![s] = what]
    /\ cpc' = [cpc EXCEPT ![s] = "done"]

\* _start_kernel has returned to the RPC function that called it
consume_start(s) ==
    /\ spc[s] = "done"
    /\ spc' = [spc EXCEPT ![s] = "idle"]
    /\ ret' = [ret EXCEPT ![s] = FALSE]
    /\ poll_i' = [poll_i EXCEPT ![s] = 0]

\* _execute_in_kernel is called
execute_call(s) ==
    /\ begin_call(s, "execute", "ensure")
    /\ UNCHANGED <<script_exists, platform, proc, KERNEL_PROCESS, spc, poll_i,
                   ret, rvars, kvars>>

\* _execute_in_kernel: `if not _is_kernel_running():`
execute_ensure(s) ==
    /\ cfn[s] = "execute"
    /\ cpc[s] = "ensure"
    /\ LET r == is_kernel_running(s)
       IN  /\ KERNEL_PROCESS' = [KERNEL_PROCESS EXCEPT ![s] = r.handle]
           /\ cpc' = [cpc EXCEPT ![s] = IF r.running THEN "connect"
                                        ELSE "ensure_start"]
    /\ cattempt' = [cattempt EXCEPT ![s] = 0]
    /\ ensured' = [ensured EXCEPT ![s] = TRUE]
    /\ UNCHANGED <<script_exists, platform, proc, spc, poll_i, ret, rvars,
                   kvars, cfn, retry, response, elapsed, outcome, exchanges,
                   empties, expired, cut, start_fails, start_calls, refusals, kside,
                   executions>>

\* _execute_in_kernel: the loop body calls _start_kernel()
execute_ensure_start(s) ==
    /\ cfn[s] = "execute"
    /\ cpc[s] = "ensure_start"
    /\ start_kernel_call(s)

\* _execute_in_kernel: _start_kernel() has returned; `break` on success,
\* else sleep and the next of the three attempts
execute_ensure_started(s) ==
    /\ cfn[s] = "execute"
    /\ cpc[s] = "ensure_start"
    /\ consume_start(s)
    /\ IF ret[s] \/ cattempt[s] + 1 = EnsureAttempts
       THEN /\ cpc' = [cpc EXCEPT ![s] = "ensure_check"]
            /\ UNCHANGED cattempt
       ELSE /\ cattempt' = [cattempt EXCEPT ![s] = cattempt[s] + 1]
            /\ UNCHANGED cpc
    /\ start_fails' = [start_fails EXCEPT ![s] = IF ret[s] THEN @ ELSE @ + 1]
    /\ start_calls' = [start_calls EXCEPT ![s] = @ + 1]
    /\ ensured' = [ensured EXCEPT ![s] = TRUE]
    /\ UNCHANGED <<script_exists, platform, proc, KERNEL_PROCESS, rvars,
                   kvars, cfn, retry, response, elapsed, outcome, exchanges,
                   empties, expired, cut, refusals, kside, executions>>

\* _execute_in_kernel: `if not _is_kernel_running(): raise RuntimeError`;
\* raised in the recursive call it is caught by the caller's
\* `except Exception`
execute_ensure_check(s) ==
    /\ cfn[s] = "execute"
    /\ cpc[s] = "ensure_check"
    /\ LET r == is_kernel_running(s)
       IN  /\ KERNEL_PROCESS' = [KERNEL_PROCESS EXCEPT ![s] = r.handle]
           /\ IF r.running
              THEN /\ cpc' = [cpc EXCEPT ![s] = "connect"]
                   /\ UNCHANGED outcome
              ELSE return_outcome(s, IF retry[s] THEN "RuntimeError"
                                     ELSE "error")
    /\ ensured' = [ensured EXCEPT ![s] = TRUE]
    /\ UNCHANGED <<script_exists, platform, proc, spc, poll_i, ret, rvars,
                   kvars, cfn, retry, cattempt, response, elapsed, exchanges,
                   empties, expired, cut, start_fails, start_calls, refusals, kside,
                   executions>>

\* _execute_in_kernel: connect and send the request; start_time is taken
execute_connect(s) ==
    /\ cfn[s] = "execute"
    /\ cpc[s] = "connect"
    /\ IF Reachable
       THEN /\ exchanges' = [exchanges EXCEPT ![s] = exchanges[s] + 1]
            /\ cpc' = [cpc EXCEPT ![s] = "recv"]
            /\ kside' = [kside EXCEPT ![s] =
                             IF @ = "abstract" THEN @ ELSE "queued"]
            /\ UNCHANGED <<outcome, refusals>>
       ELSE /\ return_outcome(s, "refused")
            /\ refusals' = [refusals EXCEPT ![s] = @ + 1]
            /\ UNCHANGED <<exchanges, kside>>
    /\ response' = [response EXCEPT ![s] = "empty"]
    /\ elapsed' = [elapsed EXCEPT ![s] = 0]
    /\ expired' = [expired EXCEPT ![s] = FALSE]
    /\ cut' = [cut EXCEPT ![s] = FALSE]
    /\ UNCHANGED <<script_exists, platform, proc, KERNEL_PROCESS, spc, poll_i,
                   ret, rvars, kvars, cfn, retry, cattempt, empties,
                   start_fails, start_calls, ensured, executions>>

\* what one pass of the receive loop may meet: a chunk that leaves the
\* response incomplete, a chunk that completes it, the connection closed,
\* the 30 s recv timeout, ConnectionResetError, or another socket error
RecvEvents ==
    {"chunk_partial", "chunk_complete", "eof", "timeout", "reset", "error"}

\* what a pass may meet given the kernel's side of the exchange: nothing
\* arrives before the kernel has answered, the bytes of the response
\* after, and the end of the connection once the kernel process is gone
RecvPossible(s) ==
    CASE kside[s] = "abstract" -> RecvEvents
      [] kside[s] = "responded" -> {"chunk_partial", "chunk_complete", "timeout"}
      [] kside[s] = "exited" -> {"eof", "reset"}
      [] OTHER -> {"timeout"}

\* the clock of one exchange stops at the first tick past the deadline
later(t, dt) == IF t + dt > TimeoutTicks + 1 THEN TimeoutTicks + 1 ELSE t + dt

\* a receive loop without the check of the total deadline
deadline_never(t) == FALSE

\* `elapsed = time.time() - start_time; if elapsed > timeout:`
deadline_passed(t) == t > TimeoutTicks

\* _execute_in_kernel: one pass of `while True`: the total deadline check
\* (`if response: break`, else return the timeout outcome), then recv
execute_recv(s) ==
    /\ cfn[s] = "execute"
    /\ cpc[s] = "recv"
    /\ IF deadline_passed(elapsed[s])
       THEN /\ expired' = [expired EXCEPT ![s] = TRUE]
            /\ IF deadline_break(response[s])
               THEN /\ cpc' = [cpc EXCEPT ![s] = "after"]
                    /\ UNCHANGED outcome
               ELSE return_outcome(s, "timeout")
            /\ UNCHANGED <<response, elapsed, cut>>
       ELSE \E ev \in RecvPossible(s), dt \in {0, 1} :
            /\ elapsed' = [elapsed EXCEPT ![s] =
                  later(elapsed[s], IF ev = "timeout" THEN 1 ELSE dt)]
            /\ response' = [response EXCEPT ![s] =
                  CASE ev = "chunk_partial" -> "partial"
                    [] ev = "chunk_complete" -> "complete"
                    [] OTHER -> response[s]]
            /\ cpc' = [cpc EXCEPT ![s] =
                  IF ev \in {"chunk_complete", "eof", "reset", "error"}
                  THEN "after" ELSE "recv"]
            /\ cut' = [cut EXCEPT ![s] = ev = "reset"]
            /\ UNCHANGED <<outcome, expired>>
    /\ UNCHANGED <<script_exists, platform, proc, KERNEL_PROCESS, spc, poll_i,
                   ret, rvars, kvars, cfn, retry, cattempt, exchanges,
                   empties, start_fails, start_calls, refusals, ensured, kside, executions>>

\* _execute_in_kernel after the loop: an empty response is retried once by
\* the recursive call, or reported; otherwise json.loads(response), whose
\* error on an incomplete response is caught by `except Exception`
execute_after(s) ==
    /\ cfn[s] = "execute"
    /\ cpc[s] = "after"
    /\ IF response[s] = "empty"
       THEN /\ empties' = [empties EXCEPT ![s] = empties[s] + 1]
            /\ IF retry[s]
               THEN /\ retry' = [retry EXCEPT ![s] = retry_argument]
                    /\ cpc' = [cpc EXCEPT ![s] = "ensure"]
                    /\ ensured' = [ensured EXCEPT ![s] = FALSE]
                    /\ UNCHANGED outcome
               ELSE /\ return_outcome(s, "unresponsive")
                    /\ UNCHANGED <<retry, ensured>>
       ELSE /\ return_outcome(s, IF response[s] = "complete" THEN "result"
                                 ELSE "error")
            /\ UNCHANGED <<empties, retry, ensured>>
    /\ UNCHANGED <<script_exists, platform, proc, KERNEL_PROCESS, spc, poll_i,
                   ret, rvars, kvars, cfn, cattempt, response, elapsed,
                   exchanges, expired, cut, start_fails, start_calls, refusals, kside,
                   executions>>

\* _send_kernel_command is called: `if KERNEL_PROCESS is None:`
command_call(s) ==
    /\ begin_call(s, "command",
                  IF KERNEL_PROCESS[s] = NoProcess THEN "ensure_start"
                  ELSE "connect")
    /\ UNCHANGED <<script_exists, platform, proc, KERNEL_PROCESS, spc, poll_i,
                   ret, rvars, kvars>>

\* _send_kernel_command: `success = _start_kernel()`
command_start(s) ==
    /\ cfn[s] = "command"
    /\ cpc[s] = "ensure_start"
    /\ start_kernel_call(s)

\* _send_kernel_command: `if not success: return` the start failure
command_started(s) ==
    /\ cfn[s] = "command"
    /\ cpc[s] = "ensure_start"
    /\ consume_start(s)
    /\ IF ret[s]
       THEN /\ cpc' = [cpc EXCEPT ![s] = "connect"]
            /\ UNCHANGED outcome
       ELSE return_outcome(s, "start_failed")
    /\ start_fails' = [start_fails EXCEPT ![s] = IF ret[s] THEN @ ELSE @ + 1]
    /\ start_calls' = [start_calls EXCEPT ![s] = @ + 1]
    /\ ensured' = [ensured EXCEPT ![s] = TRUE]
    /\ UNCHANGED <<script_exists, platform, proc, KERNEL_PROCESS, rvars,
                   kvars, cfn, retry, cattempt, response, elapsed, exchanges,
                   empties, expired, cut, refusals, kside, executions>>

\* _send_kernel_command: `continue` with the next attempt, or return what
\* when this was the last of max_retries
next_attempt(s, what) ==
    IF cattempt[s] < max_retries - 1
    THEN /\ cattempt' = [cattempt EXCEPT ![s] = cattempt[s] + 1]
         /\ cpc' = [cpc EXCEPT ![s] = "connect"]
         /\ UNCHANGED outcome
    ELSE /\ return_outcome(s, what)
         /\ UNCHANGED cattempt

\* _send_kernel_command: connect and send; ConnectionRefusedError
command_connect(s) ==
    /\ cfn[s] = "command"
    /\ cpc[s] = "connect"
    /\ IF Reachable
       THEN /\ exchanges' = [exchanges EXCEPT ![s] = exchanges[s] + 1]
            /\ cpc' = [cpc EXCEPT ![s] = "recv"]
            /\ UNCHANGED <<outcome, cattempt, refusals>>
       ELSE /\ next_attempt(s, "refused")
            /\ refusals' = [refusals EXCEPT ![s] = @ + 1]
            /\ UNCHANGED exchanges
    /\ response' = [response EXCEPT ![s] = "empty"]
    /\ cut' = [cut EXCEPT ![s] = FALSE]
    /\ UNCHANGED <<script_exists, platform, proc, KERNEL_PROCESS, spc, poll_i,
                   ret, rvars, kvars, cfn, retry, elapsed, empties, expired,
                   start_fails, start_calls, ensured, kside, executions>>

\* _send_kernel_command: recv until the connection closes or times out,
\* then the empty-response retry or json.loads; ConnectionResetError is
\* retried, any other error is returned
command_recv(s) ==
    /\ cfn[s] = "command"
    /\ cpc[s] = "recv"
    /\ \E got \in {"empty", "partial", "complete", "reset", "error"} :
        /\ response' = [response EXCEPT ![s] =
              IF got \in {"partial", "complete"} THEN got ELSE "empty"]
        /\ empties' = [empties EXCEPT ![s] =
              IF got = "empty" THEN empties[s] + 1 ELSE empties[s]]
        /\ CASE got = "empty" -> next_attempt(s, "empty_response")
             [] got = "reset" -> next_attempt(s, "busy")
             [] got = "complete" ->
                    return_outcome(s, "result") /\ UNCHANGED cattempt
             [] OTHER -> return_outcome(s, "error") /\ UNCHANGED cattempt
        /\ cut' = [cut EXCEPT ![s] = got = "reset"]
    /\ UNCHANGED <<script_exists, platform, proc, KERNEL_PROCESS, spc, poll_i,
                   ret, rvars, kvars, cfn, retry, elapsed, exchanges,
                   expired, start_fails, start_calls, refusals, ensured, kside, executions>>

\* the caller has what the RPC function returned
call_returned(s) ==
    /\ cpc[s] = "done"
    /\ cpc' = [cpc EXCEPT ![s] = "idle"]
    /\ cfn' = [cfn EXCEPT ![s] = "none"]
    /\ outcome' = [outcome EXCEPT ![s] = "none"]
    /\ retry' = [retry EXCEPT ![s] = TRUE]
    /\ cattempt' = [cattempt EXCEPT ![s] = 0]
    /\ response' = [response EXCEPT ![s] = "empty"]
    /\ elapsed' = [elapsed EXCEPT ![s] = 0]
    /\ exchanges' = [exchanges EXCEPT ![s] = 0]
    /\ empties' = [empties EXCEPT ![s] = 0]
    /\ expired' = [expired EXCEPT ![s] = FALSE]
    /\ cut' = [cut EXCEPT ![s] = FALSE]
    /\ start_fails' = [start_fails EXCEPT ![s] = 0]
    /\ start_calls' = [start_calls EXCEPT ![s] = 0]
    /\ refusals' = [refusals EXCEPT ![s] = 0]
    /\ ensured' = [ensured EXCEPT ![s] = FALSE]
    /\ executions' = [executions EXCEPT ![s] = 0]
    /\ kside' = [kside EXCEPT ![s] = IF @ = "abstract" THEN @ ELSE "none"]
    /\ UNCHANGED <<script_exists, platform, proc, KERNEL_PROCESS, spc, poll_i,
                   ret, rvars, kvars>>

\* one MCP server process makes RPC calls; a kernel another process
\* started may be listening on the endpoint from the beginning
InitRpc ==
    /\ InitKernel
    /\ InitCallers
    /\ kside = [s \in Sups |-> "abstract"]
    /\ offered = "any"
    /\ proc \in {[p \in Procs |-> "unborn"],
                 [p \in Procs |-> IF p = 1 THEN "listening" ELSE "unborn"]}
    /\ KERNEL_PROCESS = [s \in Sups |-> NoProcess]
    /\ spc = [s \in Sups |-> "idle"]
    /\ poll_i = [s \in Sups |-> 0]
    /\ ret = [s \in Sups |-> FALSE]
    /\ kpc = [s \in Sups |-> "idle"]
    /\ rpc = [s \in Sups |-> "idle"]
    /\ attempt = [s \in Sups |-> 0]
    /\ rret = [s \in Sups |-> FALSE]
    /\ stops = [s \in Sups |-> 0]
    /\ starts = [s \in Sups |-> 0]
    /\ oks = [s \in Sups |-> 0]
    /\ served_before = [s \in Sups |-> {}]
    /\ owned_at_stop = [s \in Sups |-> NoProcess]
    /\ InitProcess
    /\ script_exists \in {f \in [Sups -> BOOLEAN] : \A s \in Sups \ {Caller} : f[s]}
    /\ platform = "posix"
    /\ psutil_importable = TRUE

NextRpc ==
    \/ execute_call(Caller)
    \/ execute_ensure(Caller)
    \/ execute_ensure_start(Caller)
    \/ execute_ensure_started(Caller)
    \/ execute_ensure_check(Caller)
    \/ execute_connect(Caller)
    \/ execute_recv(Caller)
    \/ execute_after(Caller)
    \/ command_call(Caller)
    \/ command_start(Caller)
    \/ command_started(Caller)
    \/ command_connect(Caller)
    \/ command_recv(Caller)
    \/ call_returned(Caller)
    \/ start_kernel_probe(Caller)
    \/ start_kernel_owned(Caller)
    \/ start_kernel_spawn(Caller)
    \/ start_kernel_spawn_fails(Caller)
    \/ start_kernel_poll(Caller)
    \/ \E p \in Procs : kernel_bind(p) \/ kernel_exit(p)

SpecRpc == InitRpc /\ [][NextRpc]_vars

\* the next step of the caller's thread inside an RPC call; in the receive
\* loop of _execute_in_kernel only the exit on the total deadline is the
\* thread's own, what recv meets is the kernel's doing
CallerStep ==
    \/ execute_ensure(Caller)
    \/ execute_ensure_start(Caller)
    \/ execute_ensure_started(Caller)
    \/ execute_ensure_check(Caller)
    \/ execute_connect(Caller)
    \/ execute_recv(Caller) /\ deadline_passed(elapsed[Caller])
    \/ execute_after(Caller)
    \/ command_start(Caller)
    \/ command_started(Caller)
    \/ command_connect(Caller)
    \/ command_recv(Caller)
    \/ start_kernel_probe(Caller)
    \/ start_kernel_owned(Caller)
    \/ start_kernel_spawn(Caller)
    \/ start_kernel_spawn_fails(Caller)
    \/ start_kernel_poll(Caller)

\* a pass of the receive loop during which the clock moves
ClockMoves == execute_recv(Caller) /\ elapsed'[Caller] # elapsed[Caller]

\* the RPC caller whose thread goes on running (every connect, recv and
\* wait of the code has a timeout) and whose clock goes on
SpecRpcFair == SpecRpc /\ WF_vars(CallerStep) /\ WF_vars(ClockMoves)

\* ------------------------------------- one execute call and its kernel ---
\* what the kernel-side steps of an exchange leave alone
exchange_frame ==
    UNCHANGED <<script_exists, platform, KERNEL_PROCESS, spc, poll_i, ret,
                rvars, kvars, cfn, cpc, retry, cattempt, response, elapsed,
                outcome, exchanges, empties, expired, cut, start_fails, start_calls,
                refusals, ensured>>

\* handle_client on the caller's connection: the request is received and
\* decoded, and execute_code begins to run its code
kernel_serves(s) ==
    /\ kside[s] = "queued"
    /\ Reachable
    /\ kside' = [kside EXCEPT ![s] = "executing"]
    /\ executions' = [executions EXCEPT ![s] = @ + 1]
    /\ UNCHANGED proc
    /\ exchange_frame

\* handle_client: execute_code returned; conn.sendall(response), conn.close()
kernel_answers(s) ==
    /\ kside[s] = "executing"
    /\ kside' = [kside EXCEPT ![s] = "responded"]
    /\ UNCHANGED <<proc, executions>>
    /\ exchange_frame

\* the code raised SystemExit: it passes `except Exception` of execute_code,
\* handle_client and start_kernel_server, and the kernel process ends with
\* no response sent
kernel_dies(s) ==
    /\ kside[s] = "executing"
    /\ proc' = [p \in Procs |-> IF proc[p] = "listening" THEN "exited"
                                ELSE proc[p]]
    /\ kside' = [kside EXCEPT ![s] = "exited"]
    /\ UNCHANGED executions
    /\ exchange_frame

\* one MCP server process makes execute calls, and the kernel's side of
\* each exchange is followed
InitOnce ==
    /\ InitKernel
    /\ InitCallers
    /\ kside = [s \in Sups |-> "none"]
    /\ proc \in {[p \in Procs |-> "unborn"],
                 [p \in Procs |-> IF p = 1 THEN "listening" ELSE "unborn"]}
    /\ KERNEL_PROCESS = [s \in Sups |-> NoProcess]
    /\ spc = [s \in Sups |-> "idle"]
    /\ poll_i = [s \in Sups |-> 0]
    /\ ret = [s \in Sups |-> FALSE]
    /\ kpc = [s \in Sups |-> "idle"]
    /\ rpc = [s \in Sups |-> "idle"]
    /\ attempt = [s \in Sups |-> 0]
    /\ rret = [s \in Sups |-> FALSE]
    /\ stops = [s \in Sups |-> 0]
    /\ starts = [s \in Sups |-> 0]
    /\ oks = [s \in Sups |-> 0]
    /\ served_before = [s \in Sups |-> {}]
    /\ owned_at_stop = [s \in Sups |-> NoProcess]
    /\ InitProcess
    /\ offered = "any"
    /\ script_exists = [s \in Sups |-> TRUE]
    /\ platform = "posix"
    /\ psutil_importable = TRUE

NextOnce ==
    \/ execute_call(Caller)
    \/ execute_ensure(Caller)
    \/ execute_ensure_start(Caller)
    \/ execute_ensure_started(Caller)
    \/ execute_ensure_check(Caller)
    \/ execute_connect(Caller)
    \/ execute_recv(Caller)
    \/ execute_after(Caller)
    \/ call_returned(Caller)
    \/ start_kernel_probe(Caller)
    \/ start_kernel_owned(Caller)
    \/ start_kernel_spawn(Caller)
    \/ start_kernel_spawn_fails(Caller)
    \/ start_kernel_poll(Caller)
    \/ kernel_serves(Caller)
    \/ kernel_answers(Caller)
    \/ kernel_dies(Caller)
    \/ \E p \in Procs : kernel_bind(p)

SpecOnce == InitOnce /\ [][NextOnce]_vars

\* ============================================================ claims ====
Action(c) == Get(request[c], "action", "execute")

\* this step is connection c's exec of the statement at ip[c]
ExecStepOf(c) ==
    /\ st[c] = "exec"
    /\ ip[c] <= Len(Code(c))
    /\ (ip'[c] # ip[c] \/ st'[c] # "exec")

\* this step is the dispatch of connection c's request
DispatchOf(c) == st[c] = "dispatch" /\ st'[c] # "dispatch"

\* the value the last of statements 1..k of a code that bind n gives it
LastBound(code, k, n) ==
    LET js == {j \in 1..k : code[j].op = "bind" /\ code[j].name = n}
    IN  code[CHOOSE j \in js : \A i \in js : i <= j].val

\* the statement at ip[c] raises an error: a raise, or a read of a name with
\* no binding since the last reset
RaisesError(c) ==
    LET s == Code(c)[ip[c]]
    IN  s.op = "raise" \/ (s.op = "read" /\ bound[s.name] = "unbound")

(* C1: Persistence.  In one kernel process, once an execute has bound a   *)
(* name and no reset and no other binding of it has been handled since,   *)
(* the namespace holds that binding, and every execute that reads the     *)
(* name gets that value.                                                  *)
C1_Persistence ==
    [][ /\ \A n \in ProgIdents :
              bound'[n] # "unbound" =>
                  /\ n \in DOMAIN global_namespace'
                  /\ global_namespace'[n] = bound'[n]
        /\ \A c \in Conns : \A n \in ProgIdents :
              (ExecStepOf(c) /\ Code(c)[ip[c]] = ReadStmt(n)
                             /\ bound[n] # "unbound") =>
                  /\ ip'[c] = ip[c] + 1
                  /\ capture_stdout'[c] = Append(capture_stdout[c], bound[n])
      ]_vars

\* a code that only reads x has printed the value an earlier request bound
C1_Witness ==
    \E c \in Conns :
        /\ st[c] = "exec"
        /\ Code(c) = <<ReadStmt(<<"x">>)>>
        /\ ip[c] = 2
        /\ capture_stdout[c] = <<"v2">>

(* C2: Reset clears state.  The step that handles a reset leaves no user  *)
(* binding; an inspect handled afterwards lists only names bound since    *)
(* the reset (count 0 when there are none); an execute that reads a name  *)
(* bound only before the reset gets success = false and an error trace.   *)
C2_ResetClears ==
    [][\A c \in Conns :
        /\ (DispatchOf(c) /\ Action(c) = "reset") =>
              /\ \A n \in ProgIdents : n \notin DOMAIN global_namespace'
              /\ handle_inspect(global_namespace', <<>>).result.count = 0
        /\ (DispatchOf(c) /\ Action(c) = "inspect") =>
              /\ \A v \in result'[c].variables :
                    /\ v.name \in ProgIdents
                    /\ bound[v.name] # "unbound"
                    /\ v.preview = bound[v.name]
              /\ ((\A n \in ProgIdents : bound[n] = "unbound")
                     /\ Get(request[c], "pattern", <<>>) = <<>>) =>
                    result'[c].count = 0
        /\ \A n \in cleared :
              (ExecStepOf(c) /\ Code(c)[ip[c]] = ReadStmt(n)) =>
                  /\ st'[c] = "respond"
                  /\ result'[c].success = FALSE
                  /\ result'[c].error # "None"
      ]_vars

\* after a reset that cleared x, inspect("") has answered count = 0
C2_Witness ==
    \E c \in Conns :
        /\ st[c] = "respond"
        /\ request[c] = [action |-> "inspect", pattern |-> <<>>]
        /\ result[c].count = 0
        /\ <<"x">> \in cleared

\* after a reset that cleared x, a read of x has answered success = false
C2_WitnessRead ==
    \E c \in Conns :
        /\ st[c] = "respond"
        /\ Code(c) = <<ReadStmt(<<"x">>)>>
        /\ result[c].success = FALSE
        /\ <<"x">> \in cleared

(* C3: Read-only status/inspect.  Every step of the handling of a status  *)
(* or inspect request, whatever its pattern, leaves the namespace as it   *)
(* was, so any inspect gives afterwards what it gave before.              *)
C3_ReadOnly ==
    [][\A c \in Conns :
        (st[c] \in {"dispatch", "respond"} /\ st'[c] # st[c]
            /\ Action(c) \in {"inspect", "status"}) =>
              /\ global_namespace' = global_namespace
              /\ \A pat \in Patterns :
                    handle_inspect(global_namespace', pat).result =
                        handle_inspect(global_namespace, pat).result
      ]_vars

\* an inspect has been handled on a namespace that holds a user binding
C3_Witness ==
    \E c \in Conns :
        /\ st[c] = "respond"
        /\ Action(c) = "inspect"
        /\ result[c].count > 0

(* C4: Partial effect on fault.  When a statement of an execute's code    *)
(* raises an error, the result has success = false and an error trace,    *)
(* the namespace is left as the statements before it made it (each name   *)
(* they bound holds the last value they gave it), and a later execute     *)
(* that reads such a name succeeds and gets that value.                   *)
C4_PartialEffectOnFault ==
    [][\A c \in Conns :
        /\ (ExecStepOf(c) /\ RaisesError(c)) =>
              /\ st'[c] = "respond"
              /\ result'[c].success = FALSE
              /\ result'[c].error # "None"
              /\ global_namespace' = global_namespace
              /\ \A n \in BoundBy(Code(c), ip[c] - 1) :
                    /\ n \in DOMAIN global_namespace'
                    /\ global_namespace'[n] = LastBound(Code(c), ip[c] - 1, n)
        /\ \A n \in faulted :
              (ExecStepOf(c) /\ Code(c)[ip[c]] = ReadStmt(n)) =>
                  /\ ip'[c] = ip[c] + 1
                  /\ capture_stdout'[c] = Append(capture_stdout[c], bound[n])
      ]_vars

\* a code that only reads x has succeeded with the value that a code which
\* faulted afterwards had bound
C4_Witness ==
    \E c \in Conns :
        /\ st[c] = "respond"
        /\ Code(c) = <<ReadStmt(<<"x">>)>>
        /\ result[c].success = TRUE
        /\ result[c].stdout = <<"v1">>
        /\ <<"x">> \in faulted

(* C5: Sequential isolation.  Connections are accepted in the order they  *)
(* were queued, and only when no accepted connection is still being       *)
(* handled; while the code of one execute is partly run no other request  *)
(* is dispatched or executing.                                            *)
C5_SequentialIsolation ==
    /\ [](\A c, d \in Conns :
            (c # d /\ st[c] = "exec") => st[d] \notin {"dispatch", "exec"})
    /\ [][\A c \in Conns :
            (st[c] = "backlog" /\ st'[c] = "recv") =>
                /\ c = Head(backlog)
                /\ \A d \in Conns \ {c} : st[d] \notin Handling
         ]_vars

\* one execute has run its first binding and not yet its second statement
\* while another caller's connection waits in the listen queue
C5_Witness ==
    \E c, d \in Conns :
        /\ st[c] = "exec"
        /\ Len(Code(c)) = 2
        /\ ip[c] = 2
        /\ Code(c)[1].op = "bind"
        /\ st[d] = "backlog"

C10_FaultsNeverStopService ==
    [][\A c \in Conns :
        (ExecStepOf(c) /\ Code(c)[ip[c]].op \in {"raise", "exit"}) =>
              /\ st'[c] = "respond"
              /\ result'[c].success = FALSE
              /\ kernel' = "listening"
      ]_vars

\* this step is the first probe of supervisor s's _start_kernel
FirstProbeOf(s) == spc[s] = "probe" /\ spc'[s] # "probe"

(* C6 as claimed: a call of _start_kernel made while the endpoint is      *)
(* reachable does not return failure.                                     *)
C6_AdoptionWheneverReachable ==
    [][\A s \in Sups :
        (spc[s] = "idle" /\ spc'[s] # "idle" /\ Reachable) =>
            ~(spc'[s] = "done" /\ ret'[s] = FALSE)
      ]_vars

(* C6 as amended: when kernel_server.py exists, a call of _start_kernel   *)
(* goes to its first probe changing nothing, and when that probe finds    *)
(* the endpoint reachable the call returns success at once, having        *)
(* spawned no process and left the owned handle as it was; when the       *)
(* script is missing the call returns failure without probing.            *)
C6_AdoptionIdempotence ==
    [][\A s \in Sups :
        /\ (spc[s] = "idle" /\ spc'[s] # "idle") =>
              /\ proc' = proc
              /\ KERNEL_PROCESS' = KERNEL_PROCESS
              /\ script_exists[s] => spc'[s] = "probe"
              /\ ~script_exists[s] => (spc'[s] = "done" /\ ret'[s] = FALSE)
        /\ (FirstProbeOf(s) /\ Reachable) =>
              /\ spc'[s] = "done"
              /\ ret'[s] = TRUE
              /\ proc' = proc
              /\ KERNEL_PROCESS' = KERNEL_PROCESS
      ]_vars

\* a supervisor that owns no handle has returned success from _start_kernel
\* while another supervisor's kernel listens
C6_Witness ==
    \E s \in Sups :
        /\ spc[s] = "done"
        /\ ret[s] = TRUE
        /\ KERNEL_PROCESS[s] = NoProcess
        /\ \E p \in Procs : proc[p] = "listening"

(* C8 as claimed: at most one kernel process is bound to and listening on *)
(* the configured endpoint, also when supervisors race in _start_kernel.  *)
C8_SingleListener ==
    Cardinality({p \in Procs : proc[p] = "listening"}) <= 1


\* the bytes of connection c do not decode to a request document
Malformed(kind) == kind \in {"garbage", "nondict"}

(* C14: No server-side cancellation.  After the client of a connection    *)
(* has given up and closed its socket, each statement of its code still   *)
(* runs: a binding is applied to the namespace, the code is left only at  *)
(* its end, at a raised error or when it ends the interpreter; the        *)
(* response is then written once, reaches nobody, changes nothing in the  *)
(* namespace and leaves the kernel listening.                             *)
C14_NoServerSideCancellation ==
    [][\A c \in Conns :
        wire[c] = "gone" =>
            /\ (ExecStepOf(c) /\ Code(c)[ip[c]].op = "bind") =>
                  LET s == Code(c)[ip[c]]
                  IN  /\ s.name \in DOMAIN global_namespace'
                      /\ global_namespace'[s.name] = s.val
                      /\ st'[c] = "exec"
                      /\ ip'[c] = ip[c] + 1
            /\ (st[c] = "exec" /\ st'[c] = "respond") =>
                  \/ ip[c] > Len(Code(c))
                  \/ RaisesError(c)
            /\ (st[c] = "exec" /\ st'[c] \notin {"exec", "respond"}) =>
                  /\ ip[c] <= Len(Code(c))
                  /\ Code(c)[ip[c]].op = "exit"
            /\ (st[c] = "respond" /\ st'[c] # "respond") =>
                  /\ st'[c] = "closed"
                  /\ sendalls'[c] = 1
                  /\ wire'[c] = "gone"
                  /\ global_namespace' = global_namespace
                  /\ kernel' = "listening"
      ]_vars

\* the client gave up, its code ran to the end and its binding is in the
\* namespace; the result is about to be written to nobody
C14_Witness ==
    \E c \in Conns :
        /\ wire[c] = "gone"
        /\ st[c] = "respond"
        /\ result[c].success = TRUE
        /\ Len(Code(c)) = 2
        /\ Code(c)[2].op = "bind"
        /\ global_namespace[Code(c)[2].name] = Code(c)[2].val

(* C15: Uptime is monotone.  KERNEL_START_TIME never changes; the uptime  *)
(* a status reports is never below the uptime the previous status         *)
(* reported, whatever was handled in between (a reset included); a status *)
(* on a kernel in which nothing was ever bound reports variable count 0.  *)
C15_UptimeMonotone ==
    /\ [][KERNEL_START_TIME' = KERNEL_START_TIME]_vars
    /\ [][\A c \in Conns :
            (DispatchOf(c) /\ Action(c) = "status") =>
                /\ reported' = result'[c].uptime_seconds
                /\ result'[c].uptime_seconds >= reported
                /\ ((\A n \in ProgIdents : bound[n] = "unbound")
                        /\ cleared = {}) =>
                      result'[c].variable_count = 0
         ]_vars

\* an earlier status reported uptime 1, a reset has cleared a binding, time
\* has passed and the next status is about to be dispatched
C15_Witness ==
    \E c \in Conns :
        /\ st[c] = "dispatch"
        /\ Action(c) = "status"
        /\ reported = 1
        /\ now = 2
        /\ cleared # {}

(* C16: Strictly sequential handling.  In every reachable state at most   *)
(* one accepted connection is between accept and close, so at most one    *)
(* engine operation is in progress.                                       *)
C16_StrictlySequential ==
    Cardinality({c \in Conns : st[c] \in Handling}) <= 1

\* one connection has its result ready and is not yet answered and closed
\* while the next one waits in the listen queue
C16_Witness ==
    \E c, d \in Conns :
        /\ st[c] = "respond"
        /\ result[c] # NoResult
        /\ st[d] = "backlog"
        /\ backlog = <<d>>

(* C17: Malformed requests leave state unchanged.  From the accept of a   *)
(* connection whose bytes do not decode to a request document to its      *)
(* close, no step changes the namespace.                                  *)
C17_MalformedLeavesNamespace ==
    [][\A c \in Conns :
        /\ (st[c] = "backlog" /\ st'[c] = "recv") =>
              global_namespace' = global_namespace
        /\ (st[c] \in Handling /\ Malformed(data'[c])) =>
              /\ global_namespace' = global_namespace
              /\ bound' = bound
      ]_vars

\* a connection with undecodable bytes was answered and closed while the
\* namespace holds a binding
C17_Witness ==
    \E c \in Conns :
        /\ st[c] = "closed"
        /\ Malformed(data[c])
        /\ sendalls[c] = 1
        /\ \E n \in ProgIdents : n \in DOMAIN global_namespace
        /\ kernel = "listening"

(* C18: Output destinations are restored.  While no execute is running    *)
(* the installed sys.stdout is the original one, never a capture buffer;  *)
(* while one is running it is the capture buffer; whichever way execute   *)
(* is left (result, caught error, or the interpreter ending) sys.stdout   *)
(* is again what it was when execute was entered.                         *)
C18_OutputRestored ==
    /\ []((\A c \in Conns : st[c] # "exec") => sys_stdout = "original")
    /\ [](\A c \in Conns : st[c] = "exec" =>
              sys_stdout = "capture" /\ original_stdout[c] = "original")
    /\ [][\A c \in Conns :
            (st[c] = "exec" /\ st'[c] # "exec") =>
                sys_stdout' = original_stdout[c]
         ]_vars

\* execute was left by SystemExit: the process ended with the original
\* destination installed
C18_Witness ==
    /\ kernel = "exited"
    /\ sys_stdout = "original"
    /\ \E c \in Conns : st[c] = "closed" /\ data[c] = "doc" /\ sendalls[c] = 0


(* C13: Restart discards state with the process.  Whenever _restart_kernel *)
(* has returned success, every kernel process that was listening on the   *)
(* endpoint when it was called has ended, whether this supervisor had     *)
(* spawned it or adopted it.                                              *)
C13_RestartEndsOldKernel ==
    \A s \in Sups :
        (rpc[s] = "done" /\ rret[s]) =>
            \A p \in served_before[s] : proc[p] = "exited"

(* C19: Stop removes the owned child.  When _stop_kernel, called with an  *)
(* owned handle, returns, the owned child process is no longer running    *)
(* and the handle is cleared.                                             *)
C19_StopRemovesOwnedChild ==
    \A s \in Sups :
        (kpc[s] = "done" /\ owned_at_stop[s] # NoProcess) =>
            /\ KERNEL_PROCESS[s] = NoProcess
            /\ proc[owned_at_stop[s]] = "exited"

(* C20: Restart composition.  One _restart_kernel call makes exactly one  *)
(* _stop_kernel call before its first _start_kernel call and at most      *)
(* RestartAttempts _start_kernel calls; no call follows one that returned *)
(* True; it returns True exactly when one of them returned True, and      *)
(* False only after RestartAttempts calls that all returned False.        *)
C20_RestartComposition ==
    \A s \in Sups :
        /\ rpc[s] = "stop" => (stops[s] <= 1 /\ starts[s] = 0)
        /\ rpc[s] \in {"start", "done"} => stops[s] = 1
        /\ starts[s] <= RestartAttempts
        /\ oks[s] <= 1
        /\ (rpc[s] = "start" /\ spc[s] # "idle") =>
              (oks[s] = 0 /\ starts[s] < RestartAttempts)
        /\ rpc[s] = "start" => oks[s] = 0
        /\ rpc[s] = "done" =>
              /\ rret[s] <=> oks[s] = 1
              /\ starts[s] >= 1
              /\ ~rret[s] => starts[s] = RestartAttempts

\* a restart returned True at its second _start_kernel call
C20_Witness ==
    \E s \in Sups :
        /\ rpc[s] = "done"
        /\ rret[s]
        /\ starts[s] = 2
        /\ oks[s] = 1
        /\ stops[s] = 1


(* C11 as claimed: no call of an RPC function performs a third exchange.  *)
C11_NeverThirdExchange ==
    \A s \in Sups : exchanges[s] <= 2

(* C11 as amended: _execute_in_kernel begins a second exchange only after *)
(* a first one that ended with the connection closed and no byte          *)
(* received, never a third, and returns the unresponsive outcome exactly  *)
(* when both exchanges ended that way; _send_kernel_command begins at     *)
(* most max_retries exchanges, each but the first after an empty response *)
(* or a reset connection, and returns the empty-response outcome only     *)
(* after max_retries attempts.                                            *)
C11_EmptyResponseRetry ==
    \A s \in Sups :
        /\ cfn[s] = "execute" =>
              /\ exchanges[s] <= 2
              /\ empties[s] <= exchanges[s]
              /\ retry[s] <=> empties[s] = 0
              /\ (exchanges[s] = 2 \/ cpc[s] = "done") => empties[s] >= exchanges[s] - 1
              /\ cpc[s] = "done" =>
                    (outcome[s] = "unresponsive" <=> empties[s] = 2)
        /\ cfn[s] = "command" =>
              /\ exchanges[s] <= max_retries
              /\ exchanges[s] <= cattempt[s] + 1
              /\ (cpc[s] = "done" /\ outcome[s] = "empty_response") =>
                    cattempt[s] = max_retries - 1

\* _execute_in_kernel returned the unresponsive outcome after two empty
\* exchanges
C11_Witness ==
    \E s \in Sups :
        /\ cfn[s] = "execute"
        /\ cpc[s] = "done"
        /\ outcome[s] = "unresponsive"
        /\ exchanges[s] = 2
        /\ empties[s] = 2

(* C12: Timeout outcome.  When the total deadline check of                *)
(* _execute_in_kernel has found the deadline passed, with no byte or with *)
(* an incomplete response received, the call returns the timeout outcome. *)
C12_DeadlineGivesTimeout ==
    \A s \in Sups :
        (cfn[s] = "execute" /\ cpc[s] = "done" /\ expired[s]) =>
            outcome[s] = "timeout"

(* C21: Bounded start.  After spawning a child, _start_kernel makes at     *)
(* most PollAttempts (50) probes: round i of the polling loop exists only  *)
(* for i < 50.  A round returns success exactly when its probe connects,   *)
(* returns failure exactly when its probe fails and the child has exited   *)
(* or the round was the last, and otherwise goes on to round i + 1.  No    *)
(* call returns success unless a probe made during the call connected.     *)
C21_BoundedStart ==
    [][\A s \in Sups :
         /\ spc[s] = "poll" => poll_i[s] < PollAttempts
         /\ (spc[s] = "poll" /\ (spc'[s] # "poll" \/ poll_i'[s] # poll_i[s])) =>
               LET child == KERNEL_PROCESS[s]
                   connected == \E p \in Procs : proc[p] = "listening"
               IN  /\ (spc'[s] = "done" /\ ret'[s]) <=> connected
                   /\ (spc'[s] = "done" /\ ~ret'[s]) <=>
                         /\ ~connected
                         /\ \/ proc[child] = "exited"
                            \/ poll_i[s] = PollAttempts - 1
                   /\ spc'[s] = "poll" =>
                         /\ poll_i'[s] = poll_i[s] + 1
                         /\ poll_i'[s] < PollAttempts
         /\ (spc[s] # "done" /\ spc'[s] = "done" /\ ret'[s]) =>
               /\ spc[s] \in {"probe", "poll"}
               /\ \E p \in Procs : proc[p] = "listening"
      ]_vars

\* a call returned failure after its fiftieth probe failed with the child
\* still running
C21_Witness ==
    \E s \in Sups :
        /\ spc[s] = "done"
        /\ ~ret[s]
        /\ KERNEL_PROCESS[s] # NoProcess
        /\ proc[KERNEL_PROCESS[s]] = "starting"
        /\ poll_i[s] = PollAttempts - 1

(* C22: Busy retry.  When a call of the RPC Caller, execute or command,   *)
(* returns after an exchange that was cut by a connection reset, it has   *)
(* used up its attempts and returns the 'kernel busy' outcome.            *)
C22_ResetRetriedThenBusy ==
    \A s \in Sups :
        (cpc[s] = "done" /\ cut[s]) =>
            /\ outcome[s] = "busy"
            /\ cfn[s] = "command" => cattempt[s] = max_retries - 1
            /\ cfn[s] = "execute" => ~retry[s]

\* the outcomes that report a liveness fault: RuntimeError("Kernel 啟動失敗"),
\* connection refused, and _send_kernel_command's start failure
LivenessOutcomes == {"RuntimeError", "refused", "start_failed"}

(* C23: Liveness faults are retried before being reported.  A call of the *)
(* RPC Caller returns a kernel-not-started, connection-refused or         *)
(* start-failed outcome only after three start attempts or three connect  *)
(* attempts of the call have failed.                                      *)
C23_LivenessFaultsRetried ==
    \A s \in Sups :
        (cpc[s] = "done" /\ outcome[s] \in LivenessOutcomes) =>
            \/ start_fails[s] >= EnsureAttempts
            \/ refusals[s] >= max_retries

(* C24: Ensure-running before every call.  Whenever an RPC function opens *)
(* the connection of an exchange, it has run the liveness check           *)
(* (_is_kernel_running) or _start_kernel since it was called, whatever    *)
(* the owned handle refers to.                                            *)
C24_EnsureRunningBeforeConnect ==
    [][\A s \in Sups :
         (cpc[s] = "connect" /\ (cpc'[s] # "connect" \/ cattempt'[s] # cattempt[s]))
             => ensured[s]
      ]_vars

(* C29: At-most-once execution.  For one call of _execute_in_kernel, a    *)
(* kernel begins to execute the submitted code at most once, the          *)
(* automatic retry after an empty response included.                      *)
C29_AtMostOnce ==
    \A s \in Sups : executions[s] <= 1

\* the actions handle_client routes to a handler of their own
KnownActions == {"inspect", "reset", "status"}

(* C30: Default dispatch.  A decoded request whose action field is absent *)
(* or is none of inspect, reset, status is dispatched to execute_code     *)
(* with its code field, the empty code when the field is absent: the      *)
(* dispatch enters execute_code at the first statement of that code, and  *)
(* the result sent is an execute result (success with the captured        *)
(* output, or the traceback of the code), never an error for the action;  *)
(* with no code field it is the success result with no output.            *)
C30_DefaultDispatch ==
    [][\A c \in Conns :
         LET req == request[c]
             action == IF "action" \in DOMAIN req THEN req.action ELSE "absent"
             code == IF "code" \in DOMAIN req THEN req.code ELSE <<>>
         IN  (st[c] \in {"dispatch", "exec"} /\ action \notin KnownActions) =>
               /\ DispatchOf(c) =>
                     /\ st'[c] = "exec"
                     /\ ip'[c] = 1
                     /\ request'[c] = req
                     /\ global_namespace' = global_namespace
               /\ (st[c] = "exec" /\ st'[c] = "exec" /\ ip'[c] # ip[c]) =>
                     /\ ip[c] \in 1..Len(code)
                     /\ global_namespace' =
                            exec_statement(global_namespace, code[ip[c]]).ns
               /\ (st[c] = "exec" /\ st'[c] = "respond") =>
                     /\ DOMAIN result'[c] = {"success", "stdout", "stderr", "error"}
                     /\ \/ result'[c].success /\ ip[c] = Len(code) + 1
                        \/ /\ ~result'[c].success
                           /\ result'[c].error[1] = "Traceback"
                           /\ ip[c] \in 1..Len(code)
                     /\ "code" \notin DOMAIN req =>
                           result'[c].success /\ result'[c].stdout = <<>>
      ]_vars

\* a request with an unknown action and a code that binds x has been
\* executed: its success result is ready and the namespace holds x
C30_Witness ==
    \E c \in Conns :
        /\ st[c] = "respond"
        /\ request[c] = [action |-> "bogus", code |-> <<BindStmt(<<"x">>, "v1")>>]
        /\ result[c].success
        /\ <<"x">> \in DOMAIN global_namespace
        /\ global_namespace[<<"x">>] = "v1"

\* the letters a and b are the same up to case
SameLetter(a, b) == a = b \/ {a, b} = {"x", "X"} \/ {a, b} = {"y", "Y"}

\* the name is listed for the pattern: it does not begin with "_" and,
\* for a non-empty pattern, the pattern occurs in it up to case
Listed(name, pat) ==
    /\ ~(Len(name) >= 1 /\ name[1] = "_")
    /\ \/ pat = <<>>
       \/ \E i \in 0..(Len(name) - Len(pat)) :
             \A j \in 1..Len(pat) : SameLetter(name[i + j], pat[j])

(* C26: Inspect filtering.  For every namespace and every pattern, the    *)
(* result of inspect lists exactly the entries whose name does not start  *)
(* with "_" and, when the pattern is non-empty, contains the pattern as a *)
(* substring compared without regard to case; count is the number of      *)
(* entries listed.                                                        *)
C26_InspectFiltering ==
    [][\A c \in Conns :
         (DispatchOf(c) /\ Action(c) = "inspect") =>
            LET pat == IF "pattern" \in DOMAIN request[c]
                       THEN request[c].pattern ELSE <<>>
                r == result'[c]
            IN  /\ r.success
                /\ {e.name : e \in r.variables} =
                      {n \in DOMAIN global_namespace : Listed(n, pat)}
                /\ r.count = Cardinality({e.name : e \in r.variables})
      ]_vars

\* an inspect for "x" listed Xq and left out _x, both in the namespace
C26_Witness ==
    \E c \in Conns :
        /\ st[c] = "respond"
        /\ request[c] = [action |-> "inspect", pattern |-> <<"x">>]
        /\ {<<"X", "q">>, <<"_", "x">>, <<"q">>} \subseteq DOMAIN global_namespace
        /\ \E e \in result[c].variables : e.name = <<"X", "q">>
        /\ \A e \in result[c].variables : e.name \notin {<<"_", "x">>, <<"q">>}

(* C27: Preview failure degrades.  When repr fails for an entry that      *)
(* inspect is to list, inspect still succeeds: that entry is listed with  *)
(* the placeholder preview, every other matching entry with its own       *)
(* preview, and count includes the failing entry.                         *)
C27_PreviewFailureDegrades ==
    [][\A c \in Conns :
         (DispatchOf(c) /\ Action(c) = "inspect") =>
            LET pat == IF "pattern" \in DOMAIN request[c]
                       THEN request[c].pattern ELSE <<>>
                ns == global_namespace
                matching == {n \in DOMAIN ns : Listed(n, pat)}
                r == result'[c]
            IN  (\E n \in matching : ns[n] = Unprintable) =>
                  /\ r.success
                  /\ r.count = Cardinality(matching)
                  /\ \A n \in matching :
                        [name |-> n,
                         preview |-> IF ns[n] = Unprintable THEN Placeholder
                                     ELSE ns[n]] \in r.variables
      ]_vars

\* an inspect listed an entry whose repr fails next to one whose repr works
C27_Witness ==
    \E c \in Conns :
        /\ st[c] = "respond"
        /\ "action" \in DOMAIN request[c]
        /\ request[c].action = "inspect"
        /\ result[c].success
        /\ result[c].count = 2
        /\ \E e \in result[c].variables : e.preview = Placeholder
        /\ \E e \in result[c].variables : e.preview = "v1"

(* C25: Framing round-trip.  For every request document sent with the     *)
(* sentinel after it, however the bytes are split into chunks, the        *)
(* receive loop reads on while the data neither holds the sentinel nor    *)
(* parses, stops at the first chunk after which it does, and the request  *)
(* decoded then is the document the sender encoded.                       *)
C25_FramingRoundTrip ==
    /\ fst = "reading" =>
          /\ ~json_loads(fdata).ok
          /\ \A i \in 0..(Len(fdata) - Len(Sentinel)) :
                SubSeq(fdata, i + 1, i + Len(Sentinel)) # Sentinel
          /\ fdata \o pending = json_dumps(fdoc) \o Sentinel
    /\ fst = "stopped" =>
          /\ frequest.ok
          /\ frequest.value = fdoc
          /\ \/ fdata = json_dumps(fdoc)
             \/ fdata = json_dumps(fdoc) \o <<Newline>>

\* a document whose code is the sentinel's own bytes was received in
\* chunks that split the sentinel, and decoded
C25_Witness ==
    /\ fst = "stopped"
    /\ fdoc = <<<<KeyCode, Sentinel>>>>
    /\ pending = <<>>
    /\ frequest.value[1][2] = Sentinel

(* C28: Shutdown hook.  On every termination path the code handles (the   *)
(* interpreter's normal exit, SIGTERM, SIGINT) _stop_kernel has been      *)
(* called, by the handler before its sys.exit and by atexit, by the time  *)
(* the process has ended.                                                 *)
C28_ShutdownHook ==
    \A s \in Sups :
        /\ (mpc[s] = "exiting" /\ term[s] = "signal") => hook_stops[s] >= 1
        /\ mpc[s] = "ended" =>
              /\ hook_stops[s] >= 1
              /\ kpc[s] = "idle"
              /\ KERNEL_PROCESS[s] = NoProcess

\* a process that had started its kernel has ended on a signal, and the
\* kernel with it
C28_Witness ==
    /\ mpc[Restarter] = "ended"
    /\ term[Restarter] = "signal"
    /\ \E p \in Procs : proc[p] = "exited"

\* a process has ended by the interpreter's normal exit
C28_WitnessExit == mpc[Restarter] = "ended" /\ term[Restarter] = "exit"

\* the bounds of one RPC call
C31_Bounds ==
    /\ poll_i[Caller] <= PollAttempts
    /\ cfn[Caller] = "execute" =>
          /\ exchanges[Caller] <= 2
          /\ start_calls[Caller] <= 2 * EnsureAttempts
          /\ retry[Caller] => start_calls[Caller] <= EnsureAttempts
    /\ cfn[Caller] = "command" =>
          /\ exchanges[Caller] <= max_retries
          /\ start_calls[Caller] <= 1

(* C31 as stated: every call ends with an outcome, after at most 3 start   *)
(* attempts of at most 50 probes each, at most 2 exchanges for execute    *)
(* and at most 3 for commands.                                            *)
C31_AtMostThreeStarts ==
    /\ poll_i[Caller] <= PollAttempts
    /\ start_calls[Caller] <= EnsureAttempts
    /\ cfn[Caller] = "execute" => exchanges[Caller] <= 2
    /\ cfn[Caller] = "command" => exchanges[Caller] <= max_retries

(* C31, amended: every call of _execute_in_kernel and of                  *)
(* _send_kernel_command ends with an outcome, whatever the kernel does:   *)
(* each start attempt makes at most 50 polling rounds; execute makes at   *)
(* most 2 exchanges and at most 3 start attempts before each of them (6   *)
(* in the call); a command makes at most 3 exchanges and 1 start attempt. *)
C31_EveryCallReturns ==
    /\ []C31_Bounds
    /\ (cpc[Caller] \notin {"idle", "done"}) ~> (cpc[Caller] = "done")

\* an execute call has returned after more than three start attempts and
\* two exchanges
C31_Witness ==
    /\ cfn[Caller] = "execute"
    /\ cpc[Caller] = "done"
    /\ exchanges[Caller] = 2
    /\ start_calls[Caller] > EnsureAttempts

\* _execute_in_kernel takes the result of an _is_kernel_running call
C32_Checks ==
    /\ cfn[Caller] = "execute"
    /\ cpc[Caller] \in {"ensure", "ensure_check"}
    /\ cpc'[Caller] # cpc[Caller]

\* that result was True: the call goes on to connect
C32_SaidRunning == cpc'[Caller] = "connect"

(* C32: Liveness probe result.  _is_kernel_running returns true whenever  *)
(* the endpoint is reachable, with or without an owned handle; it returns *)
(* false only when the endpoint is unreachable and the owned handle is    *)
(* absent or its process has exited, and after a false result the owned   *)
(* handle is cleared.                                                     *)
C32_LivenessProbeResult ==
    [][C32_Checks =>
          /\ Reachable => C32_SaidRunning
          /\ ~C32_SaidRunning =>
                /\ ~Reachable
                /\ \/ KERNEL_PROCESS[Caller] = NoProcess
                   \/ ~alive(KERNEL_PROCESS[Caller])
                /\ KERNEL_PROCESS'[Caller] = NoProcess
          /\ (~Reachable /\ KERNEL_PROCESS[Caller] # NoProcess
                /\ alive(KERNEL_PROCESS[Caller])) =>
                /\ C32_SaidRunning
                /\ KERNEL_PROCESS'[Caller] = KERNEL_PROCESS[Caller]]_vars

\* the retry of an execute call found the endpoint unreachable and the
\* kernel it had started gone: the result was false, the handle is
\* cleared and the start attempts begin
C32_Witness ==
    /\ cfn[Caller] = "execute"
    /\ cpc[Caller] = "ensure_start"
    /\ ~retry[Caller]
    /\ spc[Caller] = "idle"
    /\ cattempt[Caller] = 0
    /\ start_calls[Caller] = 1
    /\ start_fails[Caller] = 0
    /\ KERNEL_PROCESS[Caller] = NoProcess
    /\ ~Reachable
    /\ \E p \in Procs : proc[p] = "exited"

\* an execute call found a kernel it does not own listening, and went on
\* to connect
C32_WitnessAdopted ==
    /\ cfn[Caller] = "execute"
    /\ cpc[Caller] = "connect"
    /\ exchanges[Caller] = 0
    /\ start_calls[Caller] = 0
    /\ KERNEL_PROCESS[Caller] = NoProcess
    /\ Reachable

====
